---- MODULE Spec2Model ----
(***************************************************************************)
(* A model of heimdall's near-duplicate pull-request detection:            *)
(* feature extraction and fingerprinting of a diff, the similarity         *)
(* evaluator, the bounded representation cache, and the detection run      *)
(* with its bounded pool of concurrent workers.                            *)
(*                                                                         *)
(* Text is modelled as a sequence of one-character strings, so that the    *)
(* normalisation, tokenising, sorting and hashing steps are computed the   *)
(* way the code computes them.  Similarity scores are fixed-point          *)
(* numbers: a metric is an integer number of thousandths (truncated), a    *)
(* confidence an integer number of millionths.                             *)
(***************************************************************************)
EXTENDS Integers, Sequences, FiniteSets, TLC

(***************************************************************************)
(* Characters.                                                             *)
(***************************************************************************)

\* The printable ASCII characters in code-unit order, from 32 (space) to 126,
\* without the grave accent (96), which no modelled text holds.
AsciiPrintable ==
  <<
       " ", "!", "\"", "#", "$", "%", "&", "'", "(", ")", "*", "+",
       ",", "-", ".", "/", "0", "1", "2", "3", "4", "5", "6", "7",
       "8", "9", ":", ";", "<", "=", ">", "?", "@", "A", "B", "C",
       "D", "E", "F", "G", "H", "I", "J", "K", "L", "M", "N", "O",
       "P", "Q", "R", "S", "T", "U", "V", "W", "X", "Y", "Z", "[",
       "\\", "]", "^", "_", "a", "b", "c", "d", "e", "f", "g",
       "h", "i", "j", "k", "l", "m", "n", "o", "p", "q", "r", "s",
       "t", "u", "v", "w", "x", "y", "z", "{", "|", "}", "~" >>

Range(s) == { s[i] : i \in DOMAIN s }

\* The code unit of the character at place i of AsciiPrintable.
CodeAtPlace(i) == IF i <= 64 THEN 31 + i ELSE 32 + i

\* charCodeAt: the UTF-16 code unit of a character of the modelled alphabet.
CharCode(c) ==
  IF c = "\n" THEN 10
  ELSE IF c = "\t" THEN 9
  ELSE CodeAtPlace(CHOOSE j \in 1..94 : AsciiPrintable[j] = c)

\* [a-z]
LowerLetters ==
  << "a", "b", "c", "d", "e", "f", "g", "h", "i", "j", "k", "l", "m",
     "n", "o", "p", "q", "r", "s", "t", "u", "v", "w", "x", "y", "z" >>

\* [A-Z]
UpperLetters ==
  << "A", "B", "C", "D", "E", "F", "G", "H", "I", "J", "K", "L", "M",
     "N", "O", "P", "Q", "R", "S", "T", "U", "V", "W", "X", "Y", "Z" >>

\* [0-9]
Digits == {"0", "1", "2", "3", "4", "5", "6", "7", "8", "9"}

\* \s of a JavaScript regular expression, on the modelled alphabet.
IsSpace(c) == c \in {" ", "\t", "\n"}

\* A line terminator: what "." of a regular expression does not match.
IsLineTerminator(c) == c = "\n"

IsLower(c) == \E i \in 1..26 : LowerLetters[i] = c

IsUpper(c) == \E i \in 1..26 : UpperLetters[i] = c

\* [a-z0-9_]
IsTokenChar(c) == IsLower(c) \/ c \in Digits \/ c = "_"

\* [A-Za-z_$]
IsIdentStart(c) == IsLower(c) \/ IsUpper(c) \/ c = "_" \/ c = "$"

\* [\w$]
IsIdentChar(c) == IsIdentStart(c) \/ c \in Digits

\* \w
IsWordChar(c) == IsIdentChar(c) /\ c # "$"

LowerChar(c) ==
  IF IsUpper(c) THEN LowerLetters[CHOOSE i \in 1..26 : UpperLetters[i] = c] ELSE c

\* A text left in the case it was written in.
AsWritten(s) == s

\* String.prototype.toLowerCase
toLowerCase(s) == [ i \in DOMAIN s |-> LowerChar(s[i]) ]

(***************************************************************************)
(* Strings: trimming, joining, ordering.                                   *)
(***************************************************************************)

\* The indices of the set I in increasing order.
SeqOfIndices(I) ==
  [ k \in 1..Cardinality(I) |-> CHOOSE i \in I : Cardinality({ j \in I : j < i }) = k - 1 ]

Least(I) == CHOOSE i \in I : \A j \in I : i <= j

\* The least element of I, or 0 when I is empty.
LeastOrZero(I) == IF I = {} THEN 0 ELSE Least(I)

\* The length of the longest prefix of s made of characters that pass Test.
PrefixLength(s, Test(_)) ==
  Cardinality({ i \in DOMAIN s : \A j \in 1..i : Test(s[j]) })

Drop(s, n) == [ i \in 1..(Len(s) - n) |-> s[i + n] ]

Take(s, n) == [ i \in 1..n |-> s[i] ]

TrimStart(s) == Drop(s, PrefixLength(s, IsSpace))

TrimEnd(s) ==
  Take(s, Cardinality({ i \in DOMAIN s : \E j \in i..Len(s) : ~IsSpace(s[j]) }))

\* String.prototype.trim
Trim(s) == TrimEnd(TrimStart(s))

\* Array.prototype.join: the parts with sep between them.
RECURSIVE Join(_, _)
Join(parts, sep) ==
  IF parts = <<>> THEN <<>>
  ELSE IF Len(parts) = 1 THEN parts[1]
  ELSE parts[1] \o sep \o Join(Tail(parts), sep)

\* Whether the text of pat stands in s at position p.
MatchesAt(s, p, pat) ==
  /\ p >= 1
  /\ p + Len(pat) - 1 <= Len(s)
  /\ \A k \in DOMAIN pat : s[p + k - 1] = pat[k]

\* The first place where a and b both have a character and differ, or 0.
FirstDifference(a, b) ==
  LeastOrZero({ i \in DOMAIN a \cap DOMAIN b : a[i] # b[i] })

\* a < b, given the first place where they differ.
StrLessAt(a, b, place) ==
  IF place = 0 THEN Len(a) < Len(b) ELSE CharCode(a[place]) < CharCode(b[place])

\* a < b in the order of String comparison: code unit by code unit, a proper
\* prefix first.
StrLess(a, b) == StrLessAt(a, b, FirstDifference(a, b))

\* A sort that leaves the strings in the order they come in.
InGivenOrder(s) == s

\* Array.prototype.sort with the default comparison, on an array of strings:
\* each element goes to the place after the elements less than it and the
\* equal elements before it.
SortStrings(s) ==
  LET place(i) == 1 + Cardinality({ j \in DOMAIN s : StrLess(s[j], s[i]) })
                    + Cardinality({ j \in 1..(i - 1) : s[j] = s[i] })
  IN [ k \in DOMAIN s |-> s[CHOOSE i \in DOMAIN s : place(i) = k] ]

(***************************************************************************)
(* core/utils: normalizeCodeLine, normalizePath, getTopLevelDirectory,     *)
(* clamp.                                                                  *)
(***************************************************************************)

\* A clamp that returns the value as it is.
Unclamped(value, min, max) == value

clamp(value, min, max) ==
  IF value < min THEN min ELSE IF value > max THEN max ELSE value

\* The least q >= p such that "*/" stands at q and no line terminator lies in
\* s[p..q-1]; 0 when there is none.
BlockCommentEnd(s, p) ==
  LeastOrZero({ q \in p..Len(s) :
                  MatchesAt(s, q, <<"*", "/">>) /\ \A k \in p..(q - 1) : ~IsLineTerminator(s[k]) })

\* The leftmost place, from place `from` on, at which /\/\*.*?\*\// matches;
\* 0 when there is none.
FirstBlockComment(s, from) ==
  LeastOrZero({ p \in from..Len(s) :
                  MatchesAt(s, p, <<"/", "*">>) /\ BlockCommentEnd(s, p + 2) # 0 })

\* line.replace(/\/\*.*?\*\//g, ' '), on the text from place `from` on: the
\* leftmost match, at place start, is replaced and the search goes on after it.
RECURSIVE ReplaceBlockCommentsFrom(_, _)
ReplaceBlockCommentAt(s, from, start) ==
  IF start = 0 THEN Drop(s, from - 1)
  ELSE SubSeq(s, from, start - 1) \o <<" ">>
         \o ReplaceBlockCommentsFrom(s, BlockCommentEnd(s, start + 2) + 2)

ReplaceBlockCommentsFrom(s, from) ==
  ReplaceBlockCommentAt(s, from, FirstBlockComment(s, from))

ReplaceBlockComments(s) == ReplaceBlockCommentsFrom(s, 1)

HasLineTerminatorFrom(s, p) == \E k \in p..Len(s) : IsLineTerminator(s[k])

\* The text before place p and one space in place of the rest; the text
\* itself when p is 0.
CutAt(s, p) == IF p = 0 THEN s ELSE [ i \in 1..p |-> IF i = p THEN " " ELSE s[i] ]

\* line.replace(/<marker>.*$/g, ' '): the leftmost place where marker stands
\* with no line terminator between it and the end of the text is replaced,
\* with all that follows it, by one space.
ReplaceToEnd(s, marker) ==
  CutAt(s, LeastOrZero({ p \in DOMAIN s :
                           MatchesAt(s, p, marker) /\ ~HasLineTerminatorFrom(s, p + Len(marker)) }))

\* The characters of s at the places kept, white space as a space.
KeptAsSpaces(s, kept) ==
  [ k \in DOMAIN kept |-> IF IsSpace(s[kept[k]]) THEN " " ELSE s[kept[k]] ]

\* A normalization that leaves the white space of a line as it is.
KeepsWhitespace(s) == s

\* line.replace(/\s+/g, ' '): of each run of white space the first character
\* is kept, as a space.
CollapseWhitespace(s) ==
  KeptAsSpaces(s, SeqOfIndices({ i \in DOMAIN s : ~IsSpace(s[i]) \/ i = 1 \/ ~IsSpace(s[i - 1]) }))

\* normalizeCodeLine from its second statement on: line is the trimmed value.
NormalizeTrimmedLine(line) ==
  IF line = <<>> THEN <<>>
  ELSE toLowerCase(Trim(CollapseWhitespace(
         ReplaceToEnd(
           ReplaceToEnd(
             ReplaceToEnd(ReplaceBlockComments(line), <<"/", "/">>),
             <<"#">>),
           <<"-", "-">>))))

normalizeCodeLine(value) == NormalizeTrimmedLine(Trim(value))

\* filename.replace(/\\/g, '/').trim()
normalizePath(filename) ==
  Trim([ i \in DOMAIN filename |-> IF filename[i] = "\\" THEN "/" ELSE filename[i] ])

\* String.prototype.indexOf, of one character.
IndexOfChar(s, c) == LeastOrZero({ i \in DOMAIN s : s[i] = c }) - 1

\* getTopLevelDirectory from the normalized path and its slashIndex.
TopLevelDirectoryAt(normalized, slashIndex) ==
  IF normalized = <<>> THEN <<".">>
  ELSE IF slashIndex = -1 THEN <<".">>
  ELSE IF slashIndex = 0 THEN <<".">>
  ELSE Take(normalized, slashIndex)

TopLevelDirectoryOf(normalized) ==
  TopLevelDirectoryAt(normalized, IndexOfChar(normalized, "/"))

getTopLevelDirectory(filename) == TopLevelDirectoryOf(normalizePath(filename))

(***************************************************************************)
(* core/pr-features: tokenizeLine, matchFirstGroup.                        *)
(***************************************************************************)

STOP_WORDS ==
    { <<"a">>, <<"a", "n">>, <<"a", "n", "d">>, <<"a", "s">>,
      <<"a", "t">>, <<"b", "e">>, <<"b", "y">>, <<"f", "o", "r">>,
      <<"f", "r", "o", "m">>, <<"i", "f">>, <<"i", "n">>, <<"i", "s">>,
      <<"i", "t">>, <<"o", "f">>, <<"o", "n">>, <<"o", "r">>,
      <<"t", "h", "a", "t">>, <<"t", "h", "e">>, <<"t", "o">>, <<"w", "i", "t", "h">> }

\* Whether a maximal run of token characters begins at place i of s.
IsRunStart(s, i) == IsTokenChar(s[i]) /\ (i = 1 \/ ~IsTokenChar(s[i - 1]))

\* The place where the run of token characters that begins at place i ends.
RunEnd(s, i) == Least({ j \in i..Len(s) : j = Len(s) \/ ~IsTokenChar(s[j + 1]) })

RunsFrom(s, starts) ==
  [ k \in DOMAIN starts |-> SubSeq(s, starts[k], RunEnd(s, starts[k])) ]

\* normalized.split(/[^a-z0-9_]+/): the maximal runs of token characters, and
\* an empty string where the text begins or ends with a separator.  The empty
\* strings are dropped by the length filter of tokenizeLine, so only the runs
\* are kept here.
TokenRuns(s) == RunsFrom(s, SeqOfIndices({ i \in DOMAIN s : IsRunStart(s, i) }))

\* The filter of tokenizeLine.
KeepsToken(token) == Len(token) > 1 /\ token \notin STOP_WORDS

\* The elements of s at the places given.
Pick(s, places) == [ k \in DOMAIN places |-> s[places[k]] ]

\* Array.prototype.filter
Filter(s, Test(_)) == Pick(s, SeqOfIndices({ i \in DOMAIN s : Test(s[i]) }))

\* tokenizeLine from its second statement on.
TokensOfNormalized(normalized) ==
  IF normalized = <<>> THEN <<>> ELSE Filter(TokenRuns(normalized), KeepsToken)

tokenizeLine(value) == TokensOfNormalized(normalizeCodeLine(value))

\* The value null (or undefined) where a text is expected: no text equals it.
Null == <<"null">>

\* The value null (or undefined) where a number is expected.
NullNumber == -1

\* String.prototype.startsWith
StartsWith(s, prefix) ==
  Len(prefix) <= Len(s) /\ \A k \in DOMAIN prefix : s[k] = prefix[k]

\* The text after a leading  \s+ , or Null when rest does not begin so.
AfterSpaces(rest) ==
  IF rest # <<>> /\ IsSpace(rest[1]) THEN TrimStart(rest) ELSE Null

\* The text after a leading  <keyword>\s+ , or Null when s does not begin so.
AfterKeyword(s, keyword) ==
  IF StartsWith(s, keyword) THEN AfterSpaces(Drop(s, Len(keyword))) ELSE Null

\* The capture of  ([A-Za-z_$][\w$]*)\b  at the start of s, or Null.  After a
\* longest run of [\w$] that ends in a word character a word boundary always
\* follows; the modelled lines hold no "$" (InPatternDomain).
IdentifierAtStart(s) ==
  IF s # <<>> /\ s # Null /\ IsIdentStart(s[1])
    THEN Take(s, PrefixLength(s, IsIdentChar))
    ELSE Null

\* The regular expressions of core/patterns that can match a line of the
\* modelled domain (InPatternDomain), each by the name it has here.
\*   "class"     /^\s*(?:export\s+)?class\s+([A-Za-z_$][\w$]*)\b/
\*   "interface" /^\s*(?:export\s+)?interface\s+([A-Za-z_$][\w$]*)\b/
\*   "struct"    /^\s*struct\s+([A-Za-z_$][\w$]*)\b/
\*   "def"       /^\s*def\s+([A-Za-z_][\w]*)\s*\(/
\*   "import"    /^\s*import\s+([A-Za-z0-9_.,\s]+)\s*$/
\*   "using"     /^\s*using\s+([A-Za-z0-9_.]+)\s*;?$/
\* The value is the text of capture group 1, or Null when the expression does
\* not match.
IsImportListChar(c) == IsWordChar(c) \/ c = "." \/ c = "," \/ IsSpace(c)

IsUsingChar(c) == IsWordChar(c) \/ c = "."

\* The keyword of a pattern.
KeywordOf(pattern) ==
  CASE pattern = "class" -> <<"c", "l", "a", "s", "s">>
    [] pattern = "interface" -> <<"i", "n", "t", "e", "r", "f", "a", "c", "e">>
    [] pattern = "struct" -> <<"s", "t", "r", "u", "c", "t">>
    [] pattern = "def" -> <<"d", "e", "f">>
    [] pattern = "import" -> <<"i", "m", "p", "o", "r", "t">>
    [] pattern = "using" -> <<"u", "s", "i", "n", "g">>

\* The first of the captures that is not Null, or Null.
RECURSIVE FirstCapture(_)
FirstCapture(captures) ==
  IF captures = <<>> THEN Null
  ELSE IF Head(captures) # Null THEN Head(captures)
  ELSE FirstCapture(Tail(captures))

\* <keyword>\s+([A-Za-z_$][\w$]*)\b  tried at the start of each of the texts
\* in turn.
DeclaredName(texts, keyword) ==
  FirstCapture([ k \in DOMAIN texts |-> IdentifierAtStart(AfterKeyword(texts[k], keyword)) ])

\* ([A-Za-z_][\w]*)\s*\(  at the start of rest, the name being the identifier
\* rest begins with.
NameBeforeParenthesis(rest, name) ==
  IF name = Null THEN Null
  ELSE IF StartsWith(TrimStart(Drop(rest, Len(name))), <<"(">>) THEN name
  ELSE Null

\* ([A-Za-z0-9_.,\s]+)\s*$  on rest, the text afterWord without its leading
\* white space.  \s+ gives back what the group needs: with nothing but white
\* space after the keyword the group takes the last white space.
ImportList(afterWord, rest) ==
  IF rest = <<>>
    THEN (IF Len(afterWord) >= 2 THEN <<afterWord[Len(afterWord)]>> ELSE Null)
  ELSE IF \A i \in DOMAIN rest : IsImportListChar(rest[i]) THEN rest
  ELSE Null

\* \s+([A-Za-z0-9_.,\s]+)\s*$  on the text after the keyword.
ImportAfter(afterWord) ==
  IF afterWord = <<>> \/ ~IsSpace(afterWord[1]) THEN Null
  ELSE ImportList(afterWord, TrimStart(afterWord))

\* ([A-Za-z0-9_.]+)\s*;?$  on rest, the group being its first n characters.
UsingName(rest, n) ==
  IF n = 0 THEN Null
  ELSE IF TrimStart(Drop(rest, n)) \in {<<>>, <<";">>} THEN Take(rest, n)
  ELSE Null

UsingAfter(rest) ==
  IF rest = Null THEN Null ELSE UsingName(rest, PrefixLength(rest, IsUsingChar))

\* The pattern on s, the value without its leading white space.
MatchTrimmed(s, pattern) ==
  CASE pattern \in {"class", "interface"} ->
         DeclaredName(<<AfterKeyword(s, <<"e", "x", "p", "o", "r", "t">>), s>>, KeywordOf(pattern))
    [] pattern = "struct" -> DeclaredName(<<s>>, KeywordOf(pattern))
    [] pattern = "def" ->
         NameBeforeParenthesis(AfterKeyword(s, KeywordOf(pattern)),
                               IdentifierAtStart(AfterKeyword(s, KeywordOf(pattern))))
    [] pattern = "import" ->
         IF StartsWith(s, KeywordOf(pattern))
           THEN ImportAfter(Drop(s, Len(KeywordOf(pattern))))
           ELSE Null
    [] pattern = "using" -> UsingAfter(AfterKeyword(s, KeywordOf(pattern)))

MatchPattern(value, pattern) == MatchTrimmed(TrimStart(value), pattern)

\* The lines on which the expressions left out of the pattern lists below
\* cannot match: no quote and no "$"; "(" only on a line that begins with
\* "def" (so that of the function patterns only "def" can match); no line that
\* begins with "from".
InPatternDomain(raw) ==
  /\ \A i \in DOMAIN raw : raw[i] \notin {"'", "\"", "$"}
  /\ (\E i \in DOMAIN raw : raw[i] = "(") => StartsWith(raw, <<"d", "e", "f">>)
  /\ ~StartsWith(TrimStart(raw), <<"f", "r", "o", "m">>)

IMPORT_PATTERNS == <<"import", "using">>

FUNCTION_SIGNATURE_PATTERNS == <<"def">>

CLASS_SIGNATURE_PATTERNS == <<"class", "interface", "struct">>

\* The value of matchFirstGroup, given the match of the first pattern.
RECURSIVE matchFirstGroup(_, _)
FirstGroupOr(value, patterns, match) ==
  IF match # Null /\ match # <<>>
    THEN toLowerCase(Trim(match))
    ELSE matchFirstGroup(value, Tail(patterns))

matchFirstGroup(value, patterns) ==
  IF patterns = <<>> THEN Null
  ELSE FirstGroupOr(value, patterns, MatchPattern(value, Head(patterns)))

\* A value is truthy when it is neither null nor the empty string.
Truthy(text) == text # Null /\ text # <<>>

(***************************************************************************)
(* duplicate-pr: buildFileFeatures.                                        *)
(***************************************************************************)

\* The lines of s between the line breaks, which stand at the places given.
LinesBetween(s, breaks) ==
  [ k \in 1..(Len(breaks) + 1) |->
      SubSeq(s, IF k = 1 THEN 1 ELSE breaks[k - 1] + 1,
                IF k = Len(breaks) + 1 THEN Len(s) ELSE breaks[k] - 1) ]

\* String.prototype.split('\n')
SplitLines(s) == LinesBetween(s, SeqOfIndices({ i \in DOMAIN s : s[i] = "\n" }))

\* String.prototype.slice(0, n)
SliceTo(s, n) == Take(s, IF n < Len(s) THEN n ELSE Len(s))

\* Whether the loop of buildFileFeatures goes on to the next line before it
\* normalizes this one.
SkipsLine(line) ==
  \/ line = <<>>
  \/ \E prefix \in {<<"@", "@">>, <<"+", "+", "+">>, <<"-", "-", "-">>} : StartsWith(line, prefix)
  \/ line[1] \notin {"+", "-"}

\* What one pass of the loop of buildFileFeatures computes from a line it does
\* not skip, raw being the line without its first character.
ChangeOfRaw(line, raw) ==
  [ isAdded |-> StartsWith(line, <<"+">>),
    isRemoved |-> StartsWith(line, <<"-">>),
    normalized |-> normalizeCodeLine(raw),
    tokens |-> tokenizeLine(raw),
    importMatch |-> matchFirstGroup(raw, IMPORT_PATTERNS),
    functionMatch |-> matchFirstGroup(raw, FUNCTION_SIGNATURE_PATTERNS),
    classMatch |-> matchFirstGroup(raw, CLASS_SIGNATURE_PATTERNS) ]

ChangeOfLine(line) == ChangeOfRaw(line, Drop(line, 1))

HasNormalized(change) == change.normalized # <<>>

IsAddedChange(change) == change.isAdded

IsRemovedChange(change) == change.isRemoved

\* The passes of the loop that reach its end, in the order of the lines.
ChangesOfLines(lines) ==
  Filter([ i \in DOMAIN lines |->
             IF SkipsLine(lines[i]) THEN [ normalized |-> <<>> ] ELSE ChangeOfLine(lines[i]) ],
         HasNormalized)

\* Whether the loop of buildFileFeatures takes the line as an added or removed
\* line at all.
IsChangeLine(line) == ~SkipsLine(line) /\ normalizeCodeLine(Drop(line, 1)) # <<>>

RECURSIVE Flatten(_)
Flatten(ss) == IF ss = <<>> THEN <<>> ELSE Head(ss) \o Flatten(Tail(ss))

\* Array.prototype.map
MapSeq(s, f(_)) == [ i \in DOMAIN s |-> f(s[i]) ]

\* The truthy values of a field of the changes.
TruthyOf(changes, field) ==
  { changes[i][field] : i \in DOMAIN changes } \ {Null, <<>>}

\* The lines and the tokens of the changes of one side.
LinesOf(changes) == [ i \in DOMAIN changes |-> changes[i].normalized ]

TokensOf(changes) == Flatten([ i \in DOMAIN changes |-> changes[i].tokens ])

\* The value buildFileFeatures returns, from what its loop has gathered.
FeaturesOfSides(filename, changes, sides) ==
  [ filename |-> filename,
    topLevelDirectory |-> getTopLevelDirectory(filename),
    addedLines |-> sides[1].lines,
    removedLines |-> sides[2].lines,
    addedTokens |-> sides[1].tokens,
    removedTokens |-> sides[2].tokens,
    importsAdded |-> sides[1].imports,
    importsRemoved |-> sides[2].imports,
    changedFunctions |-> TruthyOf(changes, "functionMatch"),
    changedClasses |-> TruthyOf(changes, "classMatch") ]

\* What the loop has gathered for the added side and for the removed side.
SideOf(changes) ==
  [ lines |-> LinesOf(changes),
    tokens |-> TokensOf(changes),
    imports |-> TruthyOf(changes, "importMatch") ]

FeaturesOfChanges(filename, changes) ==
  FeaturesOfSides(filename, changes,
    << SideOf(Filter(changes, IsAddedChange)), SideOf(Filter(changes, IsRemovedChange)) >>)

buildFileFeatures(file, config) ==
  FeaturesOfChanges(
    normalizePath(file.filename),
    ChangesOfLines(SplitLines(SliceTo(IF file.patch # Null THEN file.patch ELSE <<>>,
                                      config.maxPatchCharactersPerFile))))

(***************************************************************************)
(* duplicate-pr: hashing and the metadata vector.                          *)
(***************************************************************************)

\* The number of hexadecimal digits of a SHA-256 digest.
SHA256_HEX_LENGTH == 64

\* createHash('sha256').update(value).digest('hex'), with the digest taken to
\* be injective: the digest of a text is modelled as the text, tagged.
toSha256(value) == [ sha256Of |-> value ]

\* The .length of a digest.
DigestLength(digest) == SHA256_HEX_LENGTH

\* Bitwise exclusive or of two naturals.
RECURSIVE BitXor(_, _)
BitXor(a, b) ==
  IF a = 0 THEN b
  ELSE IF b = 0 THEN a
  ELSE 2 * BitXor(a \div 2, b \div 2) + (((a % 2) + (b % 2)) % 2)

\* A 32-bit hash is kept as its two 16-bit halves, so that no product leaves
\* the range of the integers the checker computes with.
FNV_OFFSET_HI == 33052
FNV_OFFSET_LO == 40389
FNV_PRIME_HI == 256
FNV_PRIME_LO == 403

\* One round of fnv1aHash32:  hash ^= code; hash = Math.imul(hash, 0x01000193).
FnvRound(hash, code) ==
  LET lo == BitXor(hash.lo, code)
      low == lo * FNV_PRIME_LO
  IN [ lo |-> low % 65536,
       hi |-> ((low \div 65536) + hash.hi * FNV_PRIME_LO + lo * FNV_PRIME_HI) % 65536 ]

\* The loop of fnv1aHash32 over the characters of value.  The hash is below
\* 2^32 after every round; looking at it there has each round computed before
\* the next one begins.
RECURSIVE FnvFold(_, _)
FnvFold(hash, value) ==
  IF value = <<>> \/ hash.hi >= 65536 THEN hash
  ELSE FnvFold(FnvRound(hash, CharCode(Head(value))), Tail(value))

\* fnv1aHash32(value), unsigned, as [hi, lo] with value hi * 65536 + lo.
fnv1aHash32(value) == FnvFold([hi |-> FNV_OFFSET_HI, lo |-> FNV_OFFSET_LO], value)

\* hash % vectorSize
HashModulo(hash, n) == ((hash.hi % n) * (65536 % n) + hash.lo) % n

\* (hash & 1) === 0 ? 1 : -1
HashSign(hash) == IF hash.lo % 2 = 0 THEN 1 ELSE -1

\* The sum of the entries first..last of a sequence of integers, by halves.
RECURSIVE SumBetween(_, _, _)
SumBetween(s, first, last) ==
  IF first > last THEN 0
  ELSE IF first = last THEN s[first]
  ELSE SumBetween(s, first, (first + last) \div 2)
         + SumBetween(s, (first + last) \div 2 + 1, last)

SumSeq(s) == SumBetween(s, 1, Len(s))

\* The vector after the loop of buildFeatureHashVector, from the hashes of the
\* tokens.
BucketSums(hashes, vectorSize) ==
  [ bucket \in 1..vectorSize |->
      SumSeq([ i \in DOMAIN hashes |->
                 IF HashModulo(hashes[i], vectorSize) = bucket - 1
                   THEN HashSign(hashes[i])
                   ELSE 0 ]) ]

HashesOf(tokens) == [ i \in DOMAIN tokens |-> fnv1aHash32(tokens[i]) ]

\* buildFeatureHashVector(text, vectorSize).  The vector is kept as its integer
\* bucket sums v; the code stores v / |v| (or v itself when |v| = 0), a
\* positive multiple of v, and the cosine of two stored vectors is the cosine
\* of their bucket sums.
buildFeatureHashVector(text, vectorSize) ==
  BucketSums(HashesOf(tokenizeLine(text)), vectorSize)

\* toFrequencyMap(tokens): each token with the number of its occurrences.
toFrequencyMap(tokens) ==
  [ token \in Range(tokens) |-> Cardinality({ i \in DOMAIN tokens : tokens[i] = token }) ]

(***************************************************************************)
(* duplicate-pr: buildPullRequestRepresentation.                           *)
(***************************************************************************)

\* The least of a set of strings.
LeastString(set) == CHOOSE x \in set : \A y \in set : y = x \/ StrLess(x, y)

\* [...set].sort() for a set of strings.
RECURSIVE SortedSeqOfSet(_)
LeastThenRest(set, least) == <<least>> \o SortedSeqOfSet(set \ {least})

SortedSeqOfSet(set) ==
  IF set = {} THEN <<>> ELSE LeastThenRest(set, LeastString(set))

\* A pull request is a record: number; title and body (texts, or Null); base
\* (the name of its base branch, base.ref, or NoBase when it has no base);
\* state ("open" or "closed"); merged_at, updated_at (times, in days, or
\* NullNumber); changed_files (or NullNumber); head_sha (head.sha, a text, empty
\* when it has none).
NoBase == "<no base>"

\* value || ''
OrEmpty(text) == IF text = Null THEN <<>> ELSE text

\* ['A', ...sortedAddedLines, 'R', ...sortedRemovedLines].join('\n')
PatchText(sortedAddedLines, sortedRemovedLines) ==
  Join(<<<<"A">>>> \o sortedAddedLines \o <<<<"R">>>> \o sortedRemovedLines, <<"\n">>)

\* An inverse text with the lines left in their places.
UnswappedPatchText(sortedAddedLines, sortedRemovedLines) ==
  Join(<<<<"A">>>> \o sortedAddedLines \o <<<<"R">>>> \o sortedRemovedLines, <<"\n">>)

\* ['A', ...sortedRemovedLines, 'R', ...sortedAddedLines].join('\n')
InversePatchText(sortedAddedLines, sortedRemovedLines) ==
  Join(<<<<"A">>>> \o sortedRemovedLines \o <<<<"R">>>> \o sortedAddedLines, <<"\n">>)

\* The sets and the arrays the loop over fileFeatures fills.
MergedSets(fileFeatures) ==
  [ field \in {"changedFunctions", "changedClasses", "importsAdded", "importsRemoved"} |->
      UNION { fileFeatures[i][field] : i \in DOMAIN fileFeatures } ]

PushedArrays(fileFeatures) ==
  [ field \in {"addedLines", "removedLines", "addedTokens", "removedTokens"} |->
      Flatten([ i \in DOMAIN fileFeatures |-> fileFeatures[i][field] ]) ]

GatheredFeatures(fileFeatures) ==
  [ fileSet |-> { fileFeatures[i].filename : i \in DOMAIN fileFeatures },
    topLevelDirectories |-> { fileFeatures[i].topLevelDirectory : i \in DOMAIN fileFeatures },
    sets |-> MergedSets(fileFeatures),
    arrays |-> PushedArrays(fileFeatures) ]

\* The sorted copies of what was gathered.
SortedFeatures(gathered) ==
  [ files |-> SortedSeqOfSet(gathered.fileSet),
    sets |-> [ field \in DOMAIN gathered.sets |-> SortedSeqOfSet(gathered.sets[field]) ],
    lines |-> [ field \in {"addedLines", "removedLines"} |-> SortStrings(gathered.arrays[field]) ] ]

\* The parts of metadataText, before the filter.
MetadataLabels ==
  << <<"f", "i", "l", "e", "s", " ">>,
     <<"f", "u", "n", "c", "t", "i", "o", "n", "s", " ">>,
     <<"c", "l", "a", "s", "s", "e", "s", " ">>,
     <<"i", "m", "p", "o", "r", "t", "s", " ", "a", "d", "d", "e", "d", " ">>,
     <<"i", "m", "p", "o", "r", "t", "s", " ", "r", "e", "m", "o", "v", "e", "d", " ">> >>

MetadataLists(sorted) ==
  << sorted.files, sorted.sets.changedFunctions, sorted.sets.changedClasses,
     sorted.sets.importsAdded, sorted.sets.importsRemoved >>

LabelledLists(lists) ==
  [ k \in DOMAIN lists |-> MetadataLabels[k] \o Join(lists[k], <<" ">>) ]

TrimmedTexts(texts) == [ k \in DOMAIN texts |-> Trim(OrEmpty(texts[k])) ]

IsNonEmpty(text) == text # <<>>

MetadataText(pr, sorted) ==
  Join(Filter(TrimmedTexts(<<pr.title, pr.body>>) \o LabelledLists(MetadataLists(sorted)),
              IsNonEmpty),
       <<"\n">>)

\* `+${line}` and `-${line}`
WithSign(lines, sign) == [ i \in DOMAIN lines |-> <<sign>> \o lines[i] ]

NormalizedDiffText(sortedAddedLines, sortedRemovedLines) ==
  Join(<<<<"A">>>> \o WithSign(sortedAddedLines, "+")
         \o <<<<"R">>>> \o WithSign(sortedRemovedLines, "-"), <<"\n">>)

\* The value buildPullRequestRepresentation returns, from what it has
\* gathered and sorted.
RepresentationOf(pr, config, gathered, sorted) ==
  [ prNumber |-> pr.number,
    title |-> OrEmpty(pr.title),
    body |-> OrEmpty(pr.body),
    baseRef |-> IF pr.base # NoBase THEN pr.base ELSE "",
    state |-> IF pr.state # "" THEN pr.state ELSE "open",
    mergedAt |-> pr.merged_at,
    fileSet |-> gathered.fileSet,
    topLevelDirectories |-> gathered.topLevelDirectories,
    fileCount |-> Len(sorted.files),
    changedFunctions |-> gathered.sets.changedFunctions,
    changedClasses |-> gathered.sets.changedClasses,
    importsAdded |-> gathered.sets.importsAdded,
    importsRemoved |-> gathered.sets.importsRemoved,
    addedTokenFrequency |-> toFrequencyMap(gathered.arrays.addedTokens),
    removedTokenFrequency |-> toFrequencyMap(gathered.arrays.removedTokens),
    metadataTokenVector |->
      buildFeatureHashVector(MetadataText(pr, sorted), config.metadataVectorSize),
    filePathHash |-> toSha256(Join(sorted.files, <<"\n">>)),
    normalizedDiffHash |->
      toSha256(NormalizedDiffText(sorted.lines.addedLines, sorted.lines.removedLines)),
    patchFingerprint |->
      toSha256(PatchText(sorted.lines.addedLines, sorted.lines.removedLines)),
    inversePatchFingerprint |->
      toSha256(InversePatchText(sorted.lines.addedLines, sorted.lines.removedLines)) ]

RepresentationOfGathered(pr, config, gathered) ==
  RepresentationOf(pr, config, gathered, SortedFeatures(gathered))

buildPullRequestRepresentation(pr, files, config) ==
  RepresentationOfGathered(pr, config,
    GatheredFeatures([ i \in DOMAIN files |-> buildFileFeatures(files[i], config) ]))

(***************************************************************************)
(* core/similarity.  A similarity is a whole number of thousandths, the    *)
(* real value truncated.                                                   *)
(***************************************************************************)

\* The value 1 of a similarity, and the value 1 of a confidence.
ONE == 1000
CONFIDENCE_ONE == 1000000

\* The greatest r in lo..hi with r * r <= n.
RECURSIVE IsqrtBetween(_, _, _)
IsqrtBetween(n, lo, hi) ==
  IF lo >= hi THEN lo
  ELSE LET mid == (lo + hi + 1) \div 2
       IN IF mid * mid <= n THEN IsqrtBetween(n, mid, hi) ELSE IsqrtBetween(n, lo, mid - 1)

\* root when dot is not negative, -root when it is.
WithSignOf(dot, root) == IF dot >= 0 THEN root ELSE 0 - root

\* dot / (Math.sqrt(normA) * Math.sqrt(normB)), in thousandths, for
\* |dot| <= sqrt(normA * normB).
CosineOf(dot, normA, normB) ==
  WithSignOf(dot, IsqrtBetween((dot * dot * ONE * ONE) \div (normA * normB), 0, ONE))

\* The last two statements of the cosine functions.
CosineOrZero(dot, normA, normB) ==
  IF normA = 0 \/ normB = 0 THEN 0 ELSE CosineOf(dot, normA, normB)

\* intersection / union, from the sizes.
JaccardOfSizes(intersection, union) ==
  IF union = 0 THEN 0 ELSE (intersection * ONE) \div union

JaccardOfIntersection(setA, setB, intersection) ==
  JaccardOfSizes(intersection, Cardinality(setA) + Cardinality(setB) - intersection)

\* A similarity that divides by the sum of the two sizes.
JaccardOverSum(setA, setB, emptySimilarity) ==
  IF setA = {} /\ setB = {} THEN emptySimilarity
  ELSE JaccardOfSizes(Cardinality(setA \cap setB), Cardinality(setA) + Cardinality(setB))

jaccardSimilarity(setA, setB, emptySimilarity) ==
  IF setA = {} /\ setB = {} THEN emptySimilarity
  ELSE JaccardOfIntersection(setA, setB, Cardinality(setA \cap setB))

RECURSIVE SumOver(_, _)
SumOver(f, keys) ==
  IF keys = {} THEN 0
  ELSE f[CHOOSE x \in keys : TRUE] + SumOver(f, keys \ {CHOOSE x \in keys : TRUE})

\* The sum of the squares of the values of a map.
SquareNorm(map) == SumOver([ t \in DOMAIN map |-> map[t] * map[t] ], DOMAIN map)

\* The sum, over the tokens both maps hold, of the products of their values.
DotOver(mapA, mapB, shared) == SumOver([ t \in shared |-> mapA[t] * mapB[t] ], shared)

cosineSimilarityFromMaps(mapA, mapB) ==
  IF DOMAIN mapA = {} \/ DOMAIN mapB = {} THEN 0
  ELSE CosineOrZero(DotOver(mapA, mapB, DOMAIN mapA \cap DOMAIN mapB),
                    SquareNorm(mapA), SquareNorm(mapB))

\* The sum of the products of the entries of two vectors of one length.
DotProduct(vectorA, vectorB) == SumSeq([ i \in DOMAIN vectorA |-> vectorA[i] * vectorB[i] ])

\* The three sums of the loop of cosineSimilarityFromVectors.
VectorSums(vectorA, vectorB) ==
  [ pair \in {"dot", "normA", "normB"} |->
      DotProduct(IF pair = "normB" THEN vectorB ELSE vectorA,
                 IF pair = "normA" THEN vectorA ELSE vectorB) ]

CosineOfSums(sums) == CosineOrZero(sums.dot, sums.normA, sums.normB)

cosineSimilarityFromVectors(vectorA, vectorB) ==
  IF Len(vectorA) = 0 \/ Len(vectorB) = 0 \/ Len(vectorA) # Len(vectorB) THEN 0
  ELSE CosineOfSums(VectorSums(vectorA, vectorB))

(***************************************************************************)
(* duplicate-pr: evaluateCandidateSimilarity.                              *)
(***************************************************************************)

Abs(n) == IF n < 0 THEN 0 - n ELSE n

Max2(a, b) == IF a >= b THEN a ELSE b

\* Math.max of three numbers.
Max3(a, b, c) == Max2(Max2(a, b), c)

\* The confidence of an inverse-patch match, 0.96, and the cap of a blended
\* confidence, 0.999, in millionths; the weights of the blend in thousandths.
REVERT_CONFIDENCE == 960000
WEIGHT_FILE_OVERLAP == 340
WEIGHT_STRUCTURAL == 320
WEIGHT_METADATA == 220
WEIGHT_SYMBOLS == 120

\* A cap that lets the blend reach full confidence.
UncappedBlend == CONFIDENCE_ONE

\* A hard filter that a file overlap equal to the threshold does not pass.
StrictlyAboveThreshold(fileOverlap, config) == fileOverlap > config.fileOverlapThreshold

\* A patch identity taken against the inverse fingerprint of the candidate.
PatchIdAgainstInverse(currentRepresentation, candidateRepresentation) ==
  /\ DigestLength(currentRepresentation.patchFingerprint) > 0
  /\ currentRepresentation.patchFingerprint = candidateRepresentation.inversePatchFingerprint

\* A match of the patch identity that a change of no line never makes.
PatchIdOfSomeLine(currentRepresentation, candidateRepresentation) ==
  /\ currentRepresentation.patchFingerprint # toSha256(PatchText(<<>>, <<>>))
  /\ currentRepresentation.patchFingerprint = candidateRepresentation.patchFingerprint

\* currentRepresentation.patchFingerprint.length > 0 &&
\* currentRepresentation.patchFingerprint === candidateRepresentation.patchFingerprint
PatchIdMatch(currentRepresentation, candidateRepresentation) ==
  /\ DigestLength(currentRepresentation.patchFingerprint) > 0
  /\ currentRepresentation.patchFingerprint = candidateRepresentation.patchFingerprint

\* The upper bound of the blend, 0.999.
BLEND_CAP == 999000

\* fileOverlap >= config.fileOverlapThreshold
PassesHardFilter(fileOverlap, config) == fileOverlap >= config.fileOverlapThreshold

\* a.length > 0 && a === b, for two digests.
DigestMatch(a, b) == DigestLength(a) > 0 /\ a = b

\* The metrics of evaluateCandidateSimilarity.
SimilarityMetrics(currentRepresentation, candidateRepresentation) ==
  [ fileOverlap |->
      jaccardSimilarity(currentRepresentation.fileSet, candidateRepresentation.fileSet, ONE),
    topLevelDirOverlap |->
      jaccardSimilarity(currentRepresentation.topLevelDirectories,
                        candidateRepresentation.topLevelDirectories, ONE),
    fileCountDelta |-> Abs(currentRepresentation.fileCount - candidateRepresentation.fileCount),
    structuralSimilarity |->
      cosineSimilarityFromMaps(currentRepresentation.addedTokenFrequency,
                               candidateRepresentation.addedTokenFrequency),
    metadataSimilarity |->
      cosineSimilarityFromVectors(currentRepresentation.metadataTokenVector,
                                  candidateRepresentation.metadataTokenVector),
    functionOverlap |->
      jaccardSimilarity(currentRepresentation.changedFunctions,
                        candidateRepresentation.changedFunctions, 0),
    classOverlap |->
      jaccardSimilarity(currentRepresentation.changedClasses,
                        candidateRepresentation.changedClasses, 0),
    importOverlap |->
      jaccardSimilarity(currentRepresentation.importsAdded,
                        candidateRepresentation.importsAdded, 0),
    patchIdMatch |-> PatchIdMatch(currentRepresentation, candidateRepresentation),
    inversePatchMatch |->
      DigestMatch(currentRepresentation.patchFingerprint,
                  candidateRepresentation.inversePatchFingerprint),
    normalizedDiffHashMatch |->
      DigestMatch(currentRepresentation.normalizedDiffHash,
                  candidateRepresentation.normalizedDiffHash),
    filePathHashMatch |->
      DigestMatch(currentRepresentation.filePathHash, candidateRepresentation.filePathHash) ]

\* The comparisons of the metrics with the thresholds.
ThresholdsPassed(metrics, config) ==
  [ passesCandidateFilter |->
      /\ metrics.fileCountDelta <= config.fileCountDeltaThreshold
      /\ metrics.topLevelDirOverlap >= config.topLevelDirOverlapThreshold,
    passesHardFilter |-> PassesHardFilter(metrics.fileOverlap, config),
    passesStructural |-> metrics.structuralSimilarity >= config.structuralSimilarityThreshold,
    passesMetadata |-> metrics.metadataSimilarity >= config.metadataSimilarityThreshold ]

\* exactDuplicate and metadataDuplicate.
DuplicateKinds(metrics, passed) ==
  [ exactDuplicate |->
      \/ metrics.patchIdMatch
      \/ (metrics.normalizedDiffHashMatch /\ metrics.filePathHashMatch /\ passed.passesHardFilter),
    metadataDuplicate |->
      passed.passesHardFilter /\ passed.passesStructural /\ passed.passesMetadata ]

\* The weighted blend of the metrics, clamped.
BlendedConfidence(metrics) ==
  clamp(metrics.fileOverlap * WEIGHT_FILE_OVERLAP
          + metrics.structuralSimilarity * WEIGHT_STRUCTURAL
          + metrics.metadataSimilarity * WEIGHT_METADATA
          + Max3(metrics.functionOverlap, metrics.classOverlap, metrics.importOverlap)
              * WEIGHT_SYMBOLS,
        0, BLEND_CAP)

\* The value evaluateCandidateSimilarity returns.
SimilarityOf(metrics, passed, kinds) ==
  [ reason |->
      IF kinds.exactDuplicate
        THEN (IF metrics.patchIdMatch THEN "patch-id-match" ELSE "normalized-diff-hash-match")
      ELSE IF kinds.metadataDuplicate THEN "structural-and-metadata-match"
      ELSE IF metrics.inversePatchMatch THEN "inverse-patch-match"
      ELSE "none",
    confidence |->
      IF kinds.exactDuplicate THEN CONFIDENCE_ONE
      ELSE IF metrics.inversePatchMatch THEN REVERT_CONFIDENCE
      ELSE BlendedConfidence(metrics),
    isDuplicate |-> kinds.exactDuplicate \/ kinds.metadataDuplicate,
    isRevert |-> metrics.inversePatchMatch,
    passesCandidateFilter |-> passed.passesCandidateFilter,
    metrics |-> metrics ]

SimilarityOfPassed(metrics, passed) ==
  SimilarityOf(metrics, passed, DuplicateKinds(metrics, passed))

SimilarityOfMetrics(metrics, config) ==
  SimilarityOfPassed(metrics, ThresholdsPassed(metrics, config))

evaluateCandidateSimilarity(currentRepresentation, candidateRepresentation, config) ==
  SimilarityOfMetrics(SimilarityMetrics(currentRepresentation, candidateRepresentation),
                      config)

(***************************************************************************)
(* duplicate-pr: configuration.  A threshold is a whole number of          *)
(* thousandths.  A value given for a setting is a record: a number, a      *)
(* boolean, or a text that is neither (kind "text").                       *)
(***************************************************************************)

DEFAULT_DUPLICATE_CONFIG ==
  [ enabled |-> TRUE,
    onlyOnOpened |-> FALSE,
    maxOpenCandidates |-> 80,
    maxMergedCandidates |-> 140,
    maxCandidateComparisons |-> 60,
    mergedLookbackDays |-> 180,
    fileCountDeltaThreshold |-> 8,
    topLevelDirOverlapThreshold |-> 500,
    fileOverlapThreshold |-> 700,
    structuralSimilarityThreshold |-> 720,
    metadataSimilarityThreshold |-> 840,
    candidateFetchConcurrency |-> 4,
    maxPatchCharactersPerFile |-> 12000,
    metadataVectorSize |-> 256,
    maxReportedMatches |-> 3 ]

NumberValue(n) == [ kind |-> "number", number |-> n, boolean |-> FALSE ]
BooleanValue(b) == [ kind |-> "boolean", number |-> 0, boolean |-> b ]
TextValue == [ kind |-> "text", number |-> 0, boolean |-> FALSE ]

\* Number.parseInt(value, 10), or the fallback when that is NaN.
parseInteger(value, fallback) ==
  IF value.kind = "number" THEN value.number ELSE fallback

\* Number.parseFloat(value), or the fallback when that is NaN.
parseNumber(value, fallback) ==
  IF value.kind = "number" THEN value.number ELSE fallback

\* parseBoolean: '1', 'true', ... are true, '0', 'false', ... are false, any
\* other value is the fallback.
parseBoolean(value, fallback) ==
  IF value.kind = "boolean" THEN value.boolean
  ELSE IF value.kind = "number" /\ value.number = 1 THEN TRUE
  ELSE IF value.kind = "number" /\ value.number = 0 THEN FALSE
  ELSE fallback

\* { ...DEFAULT_DUPLICATE_CONFIG, ...inputConfig }[name], as a value.
MergedSetting(inputConfig, name) ==
  IF name \in DOMAIN inputConfig THEN inputConfig[name]
  ELSE IF name \in {"enabled", "onlyOnOpened"} THEN BooleanValue(DEFAULT_DUPLICATE_CONFIG[name])
  ELSE NumberValue(DEFAULT_DUPLICATE_CONFIG[name])

normalizeDuplicateConfig(inputConfig) ==
  LET config(name) == MergedSetting(inputConfig, name)
  IN [ enabled |-> parseBoolean(config("enabled"), DEFAULT_DUPLICATE_CONFIG.enabled),
       onlyOnOpened |-> parseBoolean(config("onlyOnOpened"), DEFAULT_DUPLICATE_CONFIG.onlyOnOpened),
       maxOpenCandidates |-> clamp(parseInteger(config("maxOpenCandidates"), 80), 1, 400),
       maxMergedCandidates |-> clamp(parseInteger(config("maxMergedCandidates"), 140), 1, 600),
       maxCandidateComparisons |->
         clamp(parseInteger(config("maxCandidateComparisons"), 60), 1, 200),
       mergedLookbackDays |-> clamp(parseInteger(config("mergedLookbackDays"), 180), 1, 1000),
       fileCountDeltaThreshold |->
         clamp(parseInteger(config("fileCountDeltaThreshold"), 8), 0, 100),
       topLevelDirOverlapThreshold |->
         clamp(parseNumber(config("topLevelDirOverlapThreshold"), 500), 0, ONE),
       fileOverlapThreshold |-> clamp(parseNumber(config("fileOverlapThreshold"), 700), 0, ONE),
       structuralSimilarityThreshold |->
         clamp(parseNumber(config("structuralSimilarityThreshold"),
                           DEFAULT_DUPLICATE_CONFIG.structuralSimilarityThreshold), 0, ONE),
       metadataSimilarityThreshold |->
         clamp(parseNumber(config("metadataSimilarityThreshold"),
                           DEFAULT_DUPLICATE_CONFIG.metadataSimilarityThreshold), 0, ONE),
       candidateFetchConcurrency |->
         clamp(parseInteger(config("candidateFetchConcurrency"), 4), 1, 12),
       maxPatchCharactersPerFile |->
         clamp(parseInteger(config("maxPatchCharactersPerFile"), 12000), 200, 100000),
       metadataVectorSize |-> clamp(parseInteger(config("metadataVectorSize"), 256), 32, 2048),
       maxReportedMatches |-> clamp(parseInteger(config("maxReportedMatches"), 3), 1, 10) ]

(***************************************************************************)
(* core/pr-cache: the representation cache.  A Map keeps its entries in    *)
(* the order of their insertion: the cache is the sequence of its entries, *)
(* oldest insertion first.                                                 *)
(***************************************************************************)

\* REPRESENTATION_CACHE_MAX_ENTRIES is 2000 in the code; the model keeps the
\* same cache with a small bound, so that it fills.
REPRESENTATION_CACHE_MAX_ENTRIES == 3

\* String(n) of a whole number that is not negative: its decimal digits.
RECURSIVE NumberText(_)
NumberText(n) ==
  LET digit == << <<"0", "1", "2", "3", "4", "5", "6", "7", "8", "9">>[(n % 10) + 1] >>
  IN IF n < 10 THEN digit ELSE NumberText(n \div 10) \o digit

\* A key that leaves out the two settings of the configuration.
KeyWithoutSettings(owner, repo, pullRequest, config) ==
  Join(<< owner, repo, NumberText(pullRequest.number),
          IF pullRequest.updated_at = NullNumber THEN <<>>
          ELSE NumberText(pullRequest.updated_at),
          pullRequest.head_sha >>,
       <<"|">>)

\* The parts of the key joined with nothing between them.
KeyWithoutSeparator(owner, repo, pullRequest, config) ==
  Join(<< owner, repo, NumberText(pullRequest.number),
          IF pullRequest.updated_at = NullNumber THEN <<>>
          ELSE NumberText(pullRequest.updated_at),
          pullRequest.head_sha,
          NumberText(config.maxPatchCharactersPerFile),
          NumberText(config.metadataVectorSize) >>,
       <<>>)

\* [owner, repo, number, updatedAt, headSha, maxPatchCharactersPerFile,
\* metadataVectorSize].join('|'): a text.  updated_at || '' and head.sha || ''
\* turn a missing value into the empty text; a time is the text of its day.
getRepresentationCacheKey(owner, repo, pullRequest, config) ==
  Join(<< owner, repo, NumberText(pullRequest.number),
          IF pullRequest.updated_at = NullNumber THEN <<>>
          ELSE NumberText(pullRequest.updated_at),
          pullRequest.head_sha,
          NumberText(config.maxPatchCharactersPerFile),
          NumberText(config.metadataVectorSize) >>,
       <<"|">>)

CacheKeys(cache) == [ i \in DOMAIN cache |-> cache[i].key ]

\* Map.prototype.has
MapHas(cache, key) == \E i \in DOMAIN cache : cache[i].key = key

\* Map.prototype.get, for a key the map has.
MapGet(cache, key) == cache[CHOOSE i \in DOMAIN cache : cache[i].key = key].value

\* Map.prototype.delete
MapDelete(cache, key) ==
  LET keep(entry) == entry.key # key IN SelectSeq(cache, keep)

\* Map.prototype.set: the value of a key the map has is replaced where it is;
\* a new key goes to the end.
MapSet(cache, key, value) ==
  IF MapHas(cache, key)
    THEN [ i \in DOMAIN cache |->
             IF cache[i].key = key THEN [key |-> key, value |-> value] ELSE cache[i] ]
    ELSE Append(cache, [key |-> key, value |-> value])

\* A get that leaves the entry where it is.
CacheWithoutPromotion(cache, cacheKey) == cache

\* The cache after getCachedRepresentation(cacheKey).
CacheAfterGet(cache, cacheKey) ==
  IF ~MapHas(cache, cacheKey) THEN cache
  ELSE MapSet(MapDelete(cache, cacheKey), cacheKey, MapGet(cache, cacheKey))

\* A look in the cache that finds nothing.
LooksUpNothing(cache, cacheKey) == [ value |-> <<>>, cache |-> cache ]

\* getCachedRepresentation(cacheKey): the value returned (<<>> for null, else
\* the representation, in a sequence of one) and the cache it leaves.
getCachedRepresentation(cache, cacheKey) ==
  [ value |-> IF MapHas(cache, cacheKey) THEN <<MapGet(cache, cacheKey)>> ELSE <<>>,
    cache |-> CacheAfterGet(cache, cacheKey) ]

\* A cache that never drops an entry.
KeepEveryEntry(cache) == cache

\* while (representationCache.size > MAX) delete the first key
RECURSIVE EvictOldest(_)
EvictOldest(cache) ==
  IF Len(cache) > REPRESENTATION_CACHE_MAX_ENTRIES /\ cache # <<>>
    THEN EvictOldest(MapDelete(cache, cache[1].key))
    ELSE cache

\* The cache after setCachedRepresentation(cacheKey, representation).
setCachedRepresentation(cache, cacheKey, representation) ==
  LET removed == IF MapHas(cache, cacheKey) THEN MapDelete(cache, cacheKey) ELSE cache
  IN EvictOldest(MapSet(removed, cacheKey, representation))

(***************************************************************************)
(* The remote repository: its pull requests, each with its changed files.  *)
(* Times are whole days.                                                   *)
(*   1  the change: adds "class ab", removes "ca ba" in sa/ab.c            *)
(*   2  the same change with other white space, case and comments          *)
(*   3  the inverse change, merged on day 390                              *)
(*   4  the same change on another base branch, with another title         *)
(*   5  the same added line, another removed line                          *)
(*   6  the same change, merged on day 100                                 *)
(*   7  the same change on no base branch                                  *)
(*   8  a change of three files                                            *)
(*   9  the same change again                                              *)
(*   10 the same change, closed and never merged                           *)
(*   11 the change of 5 with a second file of no patch, on another base    *)
(*   12 a change that adds the line it removes, on another base            *)
(*   13 a change of no line, on another base                               *)
(***************************************************************************)
RemotePulls ==
  <<
  [ pr |-> [ number |-> 1, title |-> <<"A", "b", " ", "c", "l">>, body |-> Null, base |-> "main", state |-> "open",
             merged_at |-> NullNumber, updated_at |-> 396, created_at |-> 1,
             changed_files |-> 1, head_sha |-> <<"s", "1">> ],
    files |-> << [filename |-> <<"s", "a", "/", "a", "b", ".", "c">>, patch |-> <<"@", "@", " ", "-", "1", " ", "+", "1", " ", "@", "@", "\n", "+", "c", "l", "a", "s", "s", " ", " ", "A", "b", "\n", "-", "c", "a", " ", "b", "a", "\n", " ", "c", "t", "x">>] >> ],
  [ pr |-> [ number |-> 2, title |-> <<"b", "a">>, body |-> Null, base |-> "main", state |-> "open",
             merged_at |-> NullNumber, updated_at |-> 394, created_at |-> 1,
             changed_files |-> 1, head_sha |-> <<"s", "2">> ],
    files |-> << [filename |-> <<"s", "a", "/", "a", "b", ".", "c">>, patch |-> <<"-", "c", "a", " ", " ", "b", "a", " ", "#", " ", "o", "l", "d", "\n", "+", "C", "l", "a", "s", "s", " ", "a", "b", " ", "/", "*", " ", "n", "e", "w", " ", "*", "/">>] >> ],
  [ pr |-> [ number |-> 3, title |-> <<"A", "b", " ", "c", "l">>, body |-> Null, base |-> "main", state |-> "closed",
             merged_at |-> 390, updated_at |-> 395, created_at |-> 1,
             changed_files |-> 1, head_sha |-> <<"s", "3">> ],
    files |-> << [filename |-> <<"s", "a", "/", "a", "b", ".", "c">>, patch |-> <<"+", "c", "a", " ", "b", "a", "\n", "-", "c", "l", "a", "s", "s", " ", "a", "b">>] >> ],
  [ pr |-> [ number |-> 4, title |-> <<"z", "z">>, body |-> <<"y", "y", " ", "x">>, base |-> "dev", state |-> "open",
             merged_at |-> NullNumber, updated_at |-> 397, created_at |-> 1,
             changed_files |-> 1, head_sha |-> <<"s", "4">> ],
    files |-> << [filename |-> <<"s", "a", "/", "a", "b", ".", "c">>, patch |-> <<"@", "@", " ", "-", "1", " ", "+", "1", " ", "@", "@", "\n", "+", "c", "l", "a", "s", "s", " ", " ", "A", "b", "\n", "-", "c", "a", " ", "b", "a", "\n", " ", "c", "t", "x">>] >> ],
  [ pr |-> [ number |-> 5, title |-> <<"A", "b", " ", "c", "l">>, body |-> Null, base |-> "main", state |-> "open",
             merged_at |-> NullNumber, updated_at |-> 395, created_at |-> 1,
             changed_files |-> NullNumber, head_sha |-> <<"s", "5">> ],
    files |-> << [filename |-> <<"s", "a", "/", "a", "b", ".", "c">>, patch |-> <<"+", "c", "l", "a", "s", "s", " ", "a", "b", "\n", "-", "b", "a", " ", "c", "a">>] >> ],
  [ pr |-> [ number |-> 6, title |-> <<"A", "b", " ", "c", "l">>, body |-> Null, base |-> "main", state |-> "closed",
             merged_at |-> 100, updated_at |-> 399, created_at |-> 1,
             changed_files |-> 1, head_sha |-> <<"s", "6">> ],
    files |-> << [filename |-> <<"s", "a", "/", "a", "b", ".", "c">>, patch |-> <<"@", "@", " ", "-", "1", " ", "+", "1", " ", "@", "@", "\n", "+", "c", "l", "a", "s", "s", " ", " ", "A", "b", "\n", "-", "c", "a", " ", "b", "a", "\n", " ", "c", "t", "x">>] >> ],
  [ pr |-> [ number |-> 7, title |-> <<"A", "b", " ", "c", "l">>, body |-> Null, base |-> NoBase, state |-> "open",
             merged_at |-> NullNumber, updated_at |-> 398, created_at |-> 1,
             changed_files |-> 1, head_sha |-> <<>> ],
    files |-> << [filename |-> <<"s", "a", "/", "a", "b", ".", "c">>, patch |-> <<"@", "@", " ", "-", "1", " ", "+", "1", " ", "@", "@", "\n", "+", "c", "l", "a", "s", "s", " ", " ", "A", "b", "\n", "-", "c", "a", " ", "b", "a", "\n", " ", "c", "t", "x">>] >> ],
  [ pr |-> [ number |-> 8, title |-> Null, body |-> Null, base |-> "main", state |-> "open",
             merged_at |-> NullNumber, updated_at |-> 393, created_at |-> 1,
             changed_files |-> 3, head_sha |-> <<"s", "8">> ],
    files |-> << [filename |-> <<"s", "a", "/", "a", "b", ".", "c">>, patch |-> <<"@", "@", " ", "-", "1", " ", "+", "1", " ", "@", "@", "\n", "+", "c", "l", "a", "s", "s", " ", " ", "A", "b", "\n", "-", "c", "a", " ", "b", "a", "\n", " ", "c", "t", "x">>],
               [filename |-> <<"s", "a", "\\", "b", ".", "c">>, patch |-> Null],
               [filename |-> <<"l", "i", "b", "/", "c", ".", "c">>, patch |-> <<"+", "u", "s", "i", "n", "g", " ", "A", "b", ".", "c", ";">>] >> ],
  [ pr |-> [ number |-> 9, title |-> <<"A", "b", " ", "c", "l">>, body |-> Null, base |-> "main", state |-> "open",
             merged_at |-> NullNumber, updated_at |-> 392, created_at |-> 1,
             changed_files |-> 1, head_sha |-> <<"s", "9">> ],
    files |-> << [filename |-> <<"s", "a", "/", "a", "b", ".", "c">>, patch |-> <<"@", "@", " ", "-", "1", " ", "+", "1", " ", "@", "@", "\n", "+", "c", "l", "a", "s", "s", " ", " ", "A", "b", "\n", "-", "c", "a", " ", "b", "a", "\n", " ", "c", "t", "x">>] >> ],
  [ pr |-> [ number |-> 10, title |-> <<"A", "b", " ", "c", "l">>, body |-> Null, base |-> "main", state |-> "closed",
             merged_at |-> NullNumber, updated_at |-> 391, created_at |-> 1,
             changed_files |-> 1, head_sha |-> <<"s", "1", "0">> ],
    files |-> << [filename |-> <<"s", "a", "/", "a", "b", ".", "c">>, patch |-> <<"@", "@", " ", "-", "1", " ", "+", "1", " ", "@", "@", "\n", "+", "c", "l", "a", "s", "s", " ", " ", "A", "b", "\n", "-", "c", "a", " ", "b", "a", "\n", " ", "c", "t", "x">>] >> ],
  [ pr |-> [ number |-> 11, title |-> <<"A", "b", " ", "c", "l">>, body |-> Null, base |-> "dev", state |-> "open",
             merged_at |-> NullNumber, updated_at |-> 389, created_at |-> 1,
             changed_files |-> 2, head_sha |-> <<"s", "1", "1">> ],
    files |-> << [filename |-> <<"s", "a", "/", "a", "b", ".", "c">>, patch |-> <<"+", "c", "l", "a", "s", "s", " ", "a", "b", "\n", "-", "b", "a", " ", "c", "a">>], [filename |-> <<"s", "a", "/", "b", ".", "c">>, patch |-> Null] >> ],
  [ pr |-> [ number |-> 12, title |-> <<"A", "b", " ", "c", "l">>, body |-> Null, base |-> "dev", state |-> "open",
             merged_at |-> NullNumber, updated_at |-> 388, created_at |-> 1,
             changed_files |-> 1, head_sha |-> <<"s", "1", "2">> ],
    files |-> << [filename |-> <<"s", "a", "/", "a", "b", ".", "c">>, patch |-> <<"+", "c", "a", " ", "b", "a", "\n", "-", "c", "a", " ", "b", "a">>] >> ],
  [ pr |-> [ number |-> 13, title |-> <<"c", "t", "x">>, body |-> Null, base |-> "dev", state |-> "open",
             merged_at |-> NullNumber, updated_at |-> 387, created_at |-> 1,
             changed_files |-> 1, head_sha |-> <<"s", "1", "3">> ],
    files |-> << [filename |-> <<"d", "o", "c", "/", "x">>, patch |-> <<"@", "@", " ", "-", "1", " ", "+", "1", " ", "@", "@", "\n", " ", "c", "t", "x", "\n", "+", " ", " ">>] >> ] >>

\* Date.now(), in days.
Now == 400

OWNER == <<"a", "c", "m", "e">>
REPO == <<"r", "e", "p", "o">>

(***************************************************************************)
(* core/github: collectPullRequests, listPullRequestFiles.                 *)
(***************************************************************************)

PER_PAGE == 100

\* A stable sort: Before(a, b) when the comparison function puts a before b.
SortBy(seq, Before(_, _)) ==
  LET tie(i, j) == ~Before(seq[i], seq[j]) /\ ~Before(seq[j], seq[i])
      place(i) == 1 + Cardinality({ j \in DOMAIN seq : Before(seq[j], seq[i]) })
                    + Cardinality({ j \in 1..(i - 1) : tie(i, j) })
  IN [ k \in DOMAIN seq |-> seq[CHOOSE i \in DOMAIN seq : place(i) = k] ]

\* The pull requests at the places first..last of a listing.
PageBetween(all, first, last) ==
  [ k \in 1..(IF last >= first THEN last - first + 1 ELSE 0) |-> all[first + k - 1].pr ]

PageOf(all, perPage, page) ==
  PageBetween(all, (page - 1) * perPage + 1,
              IF page * perPage < Len(all) THEN page * perPage ELSE Len(all))

\* github.rest.pulls.list({state, sort: 'updated', direction: 'desc', per_page,
\* page}): the page of the remote's pull requests of that state, the most
\* recently updated first.
PullsList(remote, state, perPage, page) ==
  LET ofState(entry) == entry.pr.state = state
      newerFirst(a, b) == a.pr.updated_at > b.pr.updated_at
  IN PageOf(SortBy(Filter(remote, ofState), newerFirst), perPage, page)

CeilDiv(a, b) == (a + b - 1) \div b

\* A cap of one page more.
OnePageMore(limit) == CeilDiv(limit, PER_PAGE) + 3

\* Math.max(1, Math.ceil(limit / perPage) + 2)
MaxPages(limit) ==
  IF CeilDiv(limit, PER_PAGE) + 2 > 1 THEN CeilDiv(limit, PER_PAGE) + 2 ELSE 1

\* A filter that asks of a closed pull request that it was merged, at any time.
AcceptsMergedOfAnyAge(pullRequest, state, mergedLookbackDays) ==
  state = "closed" => pullRequest.merged_at # NullNumber

\* Whether the loop of collectPullRequests pushes the pull request.
CollectAccepts(pullRequest, state, mergedLookbackDays) ==
  state = "closed" =>
    /\ pullRequest.merged_at # NullNumber
    /\ ~(Now - pullRequest.merged_at > mergedLookbackDays)

\* results after the loop over the pull requests of one page: the accepted
\* ones are pushed in their order until results holds limit of them.
PushAccepted(results, pullRequests, state, limit, mergedLookbackDays) ==
  LET accepts(pullRequest) == CollectAccepts(pullRequest, state, mergedLookbackDays)
  IN SliceTo(results \o Filter(pullRequests, accepts), limit)

\* The pages of collectPullRequests from `page` on, with `results` collected
\* so far.
RECURSIVE CollectFromPage(_, _, _, _, _, _)
CollectAfterPush(remote, state, limit, mergedLookbackDays, page, pullRequests, pushed) ==
  IF Len(pullRequests) < PER_PAGE THEN pushed
  ELSE CollectFromPage(remote, state, limit, mergedLookbackDays, page + 1, pushed)

CollectAfterList(remote, state, limit, mergedLookbackDays, page, results, pullRequests) ==
  IF Len(pullRequests) = 0 THEN results
  ELSE CollectAfterPush(remote, state, limit, mergedLookbackDays, page, pullRequests,
         PushAccepted(results, pullRequests, state, limit, mergedLookbackDays))

CollectFromPage(remote, state, limit, mergedLookbackDays, page, results) ==
  IF ~(page <= MaxPages(limit) /\ Len(results) < limit) THEN results
  ELSE CollectAfterList(remote, state, limit, mergedLookbackDays, page, results,
                        PullsList(remote, state, PER_PAGE, page))

collectPullRequests(remote, state, limit, mergedLookbackDays) ==
  CollectFromPage(remote, state, limit, mergedLookbackDays, 1, <<>>)

\* listPullRequestFiles: every changed file of the pull request.
listPullRequestFiles(remote, pullNumber) ==
  remote[CHOOSE i \in DOMAIN remote : remote[i].pr.number = pullNumber].files

(***************************************************************************)
(* The calls the model makes.                                              *)
(***************************************************************************)

\* The configurations the runs are called with.
ConfigInputs ==
  << [ name \in {"candidateFetchConcurrency", "metadataVectorSize", "fileCountDeltaThreshold",
                  "maxCandidateComparisons"} |->
         IF name = "candidateFetchConcurrency" THEN NumberValue(2)
         ELSE IF name = "metadataVectorSize" THEN NumberValue(32)
         ELSE IF name = "maxCandidateComparisons" THEN NumberValue(4)
         ELSE NumberValue(1) ],
     [ name \in {"candidateFetchConcurrency", "metadataVectorSize", "maxReportedMatches",
                  "maxCandidateComparisons"} |->
         IF name = "candidateFetchConcurrency" THEN TextValue
         ELSE IF name = "metadataVectorSize" THEN NumberValue(33)
         ELSE IF name = "maxCandidateComparisons" THEN NumberValue(2)
         ELSE NumberValue(1) ],
     [ name \in {"enabled"} |-> BooleanValue(FALSE) ] >>

\* The pull requests the runs are called for.
CurrentNumbers == {1, 3, 7}

\* normalizeDuplicateConfig of each of the configurations above.
RECURSIVE EffectiveConfigsUpTo(_)
EffectiveConfigsUpTo(c) ==
  IF c = 0 THEN <<>>
  ELSE Append(EffectiveConfigsUpTo(c - 1), normalizeDuplicateConfig(ConfigInputs[c]))

EffectiveConfigs == EffectiveConfigsUpTo(Len(ConfigInputs))

\* buildPullRequestRepresentation of each pull request of the remote with its
\* files, under each of the configurations: computed once and read wherever
\* the code builds the representation of these arguments.
RECURSIVE RepresentationsUpTo(_, _, _)
RepresentationsUpTo(pulls, config, n) ==
  IF n = 0 THEN <<>>
  ELSE Append(RepresentationsUpTo(pulls, config, n - 1),
              buildPullRequestRepresentation(pulls[n].pr, pulls[n].files, config))

RECURSIVE RepresentationTableUpTo(_, _, _)
RepresentationTableUpTo(pulls, configs, c) ==
  IF c = 0 THEN <<>>
  ELSE Append(RepresentationTableUpTo(pulls, configs, c - 1),
              RepresentationsUpTo(pulls, configs[c], Len(pulls)))

\* evaluateCandidateSimilarity of each pair of these representations, under
\* each of the configurations: computed once as well.
RECURSIVE SimilaritiesUpTo(_, _, _, _)
SimilaritiesUpTo(representations, config, current, n) ==
  IF n = 0 THEN <<>>
  ELSE Append(SimilaritiesUpTo(representations, config, current, n - 1),
              evaluateCandidateSimilarity(representations[current], representations[n], config))

RECURSIVE SimilarityRowsUpTo(_, _, _)
SimilarityRowsUpTo(representations, config, current) ==
  IF current = 0 THEN <<>>
  ELSE Append(SimilarityRowsUpTo(representations, config, current - 1),
              IF current \in CurrentNumbers
                THEN SimilaritiesUpTo(representations, config, current, Len(representations))
                ELSE <<>>)

RECURSIVE SimilarityTableUpTo(_, _, _)
SimilarityTableUpTo(table, configs, c) ==
  IF c = 0 THEN <<>>
  ELSE Append(SimilarityTableUpTo(table, configs, c - 1),
              SimilarityRowsUpTo(table[c], configs[c], Len(table[c])))

\* The three tables together.
MemoOfTable(pulls, configs, table) ==
  [ pulls |-> pulls,
    configs |-> configs,
    representations |-> table,
    similarities |-> SimilarityTableUpTo(table, configs, Len(configs)) ]

MemoOfConfigs(pulls, configs) ==
  MemoOfTable(pulls, configs, RepresentationTableUpTo(pulls, configs, Len(configs)))

Memo == MemoOfConfigs(RemotePulls, EffectiveConfigs)

RepresentationTable == Memo.representations

SimilarityTable == Memo.similarities

\* The settings buildPullRequestRepresentation and evaluateCandidateSimilarity
\* read of a configuration.
SettingsRead(config) ==
  << config.maxPatchCharactersPerFile, config.metadataVectorSize,
     config.fileCountDeltaThreshold, config.topLevelDirOverlapThreshold,
     config.fileOverlapThreshold, config.structuralSimilarityThreshold,
     config.metadataSimilarityThreshold >>

\* The places, among the configurations of the tables, of those that agree
\* with a configuration on these settings.
KnownConfigs(memo, config) ==
  { c \in DOMAIN memo.configs : SettingsRead(memo.configs[c]) = SettingsRead(config) }

BuiltFromMemo(memo, known, pr, files, config) ==
  IF /\ known # {}
     /\ pr.number \in DOMAIN memo.pulls
     /\ memo.pulls[pr.number].pr = pr
     /\ memo.pulls[pr.number].files = files
    THEN memo.representations[CHOOSE c \in known : TRUE][pr.number]
    ELSE buildPullRequestRepresentation(pr, files, config)

BuiltWithMemo(memo, pr, files, config) ==
  BuiltFromMemo(memo, KnownConfigs(memo, config), pr, files, config)

BuiltRepresentation(pr, files, config) == BuiltWithMemo(Memo, pr, files, config)

EvaluatedAtPlace(memo, c, current, candidate, currentRepresentation, candidateRepresentation,
                 config) ==
  IF /\ c # 0
     /\ current \in CurrentNumbers
     /\ candidate \in DOMAIN memo.pulls
     /\ memo.representations[c][current] = currentRepresentation
     /\ memo.representations[c][candidate] = candidateRepresentation
    THEN memo.similarities[c][current][candidate]
    ELSE evaluateCandidateSimilarity(currentRepresentation, candidateRepresentation, config)

EvaluatedWithMemo(memo, currentRepresentation, candidateRepresentation, config) ==
  EvaluatedAtPlace(memo, LeastOrZero(KnownConfigs(memo, config)),
                   currentRepresentation.prNumber, candidateRepresentation.prNumber,
                   currentRepresentation, candidateRepresentation, config)

EvaluatedSimilarity(currentRepresentation, candidateRepresentation, config) ==
  EvaluatedWithMemo(Memo, currentRepresentation, candidateRepresentation, config)

(***************************************************************************)
(* duplicate-pr: detectDuplicatePullRequest, and core/utils:               *)
(* mapWithConcurrency.                                                     *)
(***************************************************************************)

\* A loop that drops the current pull request only.
EntersOnAnyBase(candidate, currentPullRequest, currentRepresentation) ==
  candidate.number # currentPullRequest.number

\* const candidateByNumber = new Map(); for (const candidate of [...open,
\* ...merged]) ...: whether the loop keeps the candidate at all.
EntersCandidateMap(candidate, currentPullRequest, currentRepresentation) ==
  /\ candidate.number # currentPullRequest.number
  /\ ~(candidate.base = NoBase \/ candidate.base # currentRepresentation.baseRef)

\* [...candidateByNumber.values()]: of each number the first candidate kept.
FirstOfEachNumber(kept) ==
  Pick(kept, SeqOfIndices({ i \in DOMAIN kept :
                             \A j \in 1..(i - 1) : kept[j].number # kept[i].number }))

CandidatesByNumber(candidates, currentPullRequest, currentRepresentation) ==
  LET enters(candidate) ==
        EntersCandidateMap(candidate, currentPullRequest, currentRepresentation)
  IN FirstOfEachNumber(Filter(candidates, enters))

\* Date.parse(updated_at || created_at || 0)
SortTimestamp(pullRequest) ==
  IF pullRequest.updated_at # NullNumber THEN pullRequest.updated_at ELSE pullRequest.created_at

\* A comparison by the time of the last update alone.
ByRecencyAlone(left, right) == SortTimestamp(right) - SortTimestamp(left) < 0

\* The comparison function of the candidate pool.
PoolBefore(left, right) ==
  LET leftIsOpen == IF left.merged_at = NullNumber /\ left.state = "open" THEN 0 ELSE 1
      rightIsOpen == IF right.merged_at = NullNumber /\ right.state = "open" THEN 0 ELSE 1
  IN IF leftIsOpen # rightIsOpen THEN leftIsOpen - rightIsOpen < 0
     ELSE SortTimestamp(right) - SortTimestamp(left) < 0

BuildCandidatePool(openCandidates, mergedCandidates, currentPullRequest, currentRepresentation, config) ==
  LET sorted == SortBy(CandidatesByNumber(openCandidates \o mergedCandidates,
                                          currentPullRequest, currentRepresentation),
                       PoolBefore)
  IN SliceTo(sorted, config.maxCandidateComparisons)

\* One worker for each item, whatever the concurrency asked for.
WorkerForEachItem(concurrency, length) == IF length > 1 THEN length ELSE 1

\* Math.max(1, Math.min(concurrency, items.length || 1))
WorkerLimit(concurrency, length) ==
  LET len == IF length = 0 THEN 1 ELSE length
      least == IF concurrency < len THEN concurrency ELSE len
  IN IF least > 1 THEN least ELSE 1

\* The entry of a candidate whose similarity passed the candidate filter.
EntryOf(candidate, similarity) ==
  [ number |-> candidate.number,
    state |-> IF candidate.merged_at # NullNumber THEN "merged"
              ELSE IF candidate.state # "" THEN candidate.state ELSE "open",
    title |-> OrEmpty(candidate.title),
    mergedAt |-> candidate.merged_at,
    similarity |-> similarity ]

TaskValueOf(candidate, similarity) ==
  IF ~similarity.passesCandidateFilter THEN <<>> ELSE << EntryOf(candidate, similarity) >>

\* What the task returns for a candidate with its representation: null (<<>>)
\* or the entry, in a sequence of one.
TaskValue(currentRepresentation, candidate, candidateRepresentation, config) ==
  TaskValueOf(candidate,
              EvaluatedSimilarity(currentRepresentation, candidateRepresentation, config))

\* An early return that allows twice the difference of the configuration.
SkipsBeyondTwice(candidate, currentRepresentation, config) ==
  /\ candidate.changed_files # NullNumber
  /\ Abs(candidate.changed_files - currentRepresentation.fileCount)
       > 2 * config.fileCountDeltaThreshold

\* The early return of the task: the candidate's reported number of changed
\* files is too far from the current number of files.
SkipsEarly(candidate, currentRepresentation, config) ==
  /\ candidate.changed_files # NullNumber
  /\ Abs(candidate.changed_files - currentRepresentation.fileCount)
       > config.fileCountDeltaThreshold

\* The task from its look in the cache on.
TaskAfterLookup(run, candidate, cached) ==
  IF cached.value # <<>>
    THEN [ pc |-> "resolved",
           value |-> TaskValue(run.currentRepresentation[1], candidate, cached.value[1],
                               run.config),
           cache |-> cached.cache ]
    ELSE [ pc |-> "fetching", value |-> <<>>, cache |-> cached.cache ]

\* The task of detectDuplicatePullRequest up to its first suspension: it
\* returns (pc "resolved", with its value) or waits for the list of the
\* candidate's files (pc "fetching").
TaskUntilFetch(run, cache, candidate) ==
  IF SkipsEarly(candidate, run.currentRepresentation[1], run.config)
    THEN [ pc |-> "resolved", value |-> <<>>, cache |-> cache ]
    ELSE TaskAfterLookup(run, candidate,
           getCachedRepresentation(cache,
             getRepresentationCacheKey(OWNER, REPO, candidate, run.config)))

\* The task from the building of the candidate's representation on.
TaskAfterBuild(run, cache, candidate, candidateCacheKey, candidateRepresentation) ==
  [ value |-> TaskValue(run.currentRepresentation[1], candidate,
                        candidateRepresentation, run.config),
    key |-> candidateCacheKey,
    cache |-> setCachedRepresentation(cache, candidateCacheKey, candidateRepresentation) ]

\* The rest of the task once the list of the candidate's files has arrived.
TaskAfterFetch(run, cache, candidate, candidateFiles) ==
  TaskAfterBuild(run, cache, candidate,
                 getRepresentationCacheKey(OWNER, REPO, candidate, run.config),
                 BuiltRepresentation(candidate, candidateFiles, run.config))

\* A value stored at the first free place, in the order of arrival.
StoreAtArrival(results, index, value) ==
  LET free == { i \in DOMAIN results : ~results[i].set }
  IN [ results EXCEPT ![Least(free)] = [ set |-> TRUE, value |-> value ] ]

\* results[index] = <the value the task returned>
StoreResult(results, index, value) ==
  [ results EXCEPT ![index + 1] = [ set |-> TRUE, value |-> value ] ]

\* The worker's turn once the task of the item it took has reached its first
\* suspension.
TakenWith(run, w, index, task) ==
  [ run |-> [ run EXCEPT !.cursor = index + 1,
                         !.workers[w] = [ pc |-> task.pc, index |-> index,
                                          value |-> task.value ],
                         !.taken = Append(@, index) ],
    cache |-> task.cache ]

TakeAt(run, cache, w, index) ==
  IF index >= Len(run.candidatePool)
    THEN [ run |-> [ run EXCEPT !.cursor = index + 1,
                                !.workers[w] = [ pc |-> "exited", index |-> index,
                                                 value |-> <<>> ] ],
           cache |-> cache ]
    ELSE TakenWith(run, w, index, TaskUntilFetch(run, cache, run.candidatePool[index + 1]))

\* A turn of a worker that leaves once a task of the call has failed.
StopsWhenFailed(run, cache, w) ==
  IF run.phase = "failed"
    THEN [ run |-> [ run EXCEPT !.workers[w] = [ pc |-> "exited", index |-> run.cursor,
                                                 value |-> <<>> ] ],
           cache |-> cache ]
    ELSE TakeAt(run, cache, w, run.cursor)

\* One turn of a worker's loop of mapWithConcurrency, up to its next
\* suspension: it takes the next index and leaves when the items are
\* exhausted, else starts the task of that item.
TakeNext(run, cache, w) == TakeAt(run, cache, w, run.cursor)

\* for (workerIndex = 0; workerIndex < limit; ...) workers.push((async () =>
\* ...)()): each worker runs, in turn, up to its first suspension.
RECURSIVE SpawnWorkers(_, _, _)
SpawnAfter(next, w) == SpawnWorkers(next.run, next.cache, w)

SpawnWorkers(run, cache, w) ==
  IF w > Len(run.workers) THEN [ run |-> run, cache |-> cache ]
  ELSE SpawnAfter(TakeNext(run, cache, w), w + 1)

\* The entries left in the order of the evaluations.
InEvaluationOrder(entries) == entries

\* .sort((left, right) => right.similarity.confidence - left.similarity.confidence)
ByConfidence(entries) ==
  LET before(left, right) == right.similarity.confidence - left.similarity.confidence < 0
  IN SortBy(entries, before)

\* evaluations.filter(Boolean)
Compared(results) ==
  LET filled(result) == result.set /\ result.value # <<>>
      valueOf(result) == result.value[1]
  IN MapSeq(Filter(results, filled), valueOf)

IsDuplicateEntry(entry) == entry.similarity.isDuplicate

IsRevertEntry(entry) == entry.similarity.isRevert

\* The result from the matches to report.
ResultOfMatches(topMatches, reverts, candidateCount, comparedCount, config) ==
  [ checked |-> TRUE,
    skipReason |-> "",
    flagged |-> Len(topMatches) > 0,
    candidateCount |-> candidateCount,
    comparedCount |-> comparedCount,
    matches |-> topMatches,
    bestMatch |-> SliceTo(topMatches, 1),
    reverts |-> reverts,
    thresholds |-> [ fileOverlap |-> config.fileOverlapThreshold,
                     structuralSimilarity |-> config.structuralSimilarityThreshold,
                     metadataSimilarity |-> config.metadataSimilarityThreshold ] ]

\* The result from the entries compared.
ResultOfCompared(compared, candidatePool, config) ==
  ResultOfMatches(
    SliceTo(ByConfidence(Filter(compared, IsDuplicateEntry)), config.maxReportedMatches),
    SliceTo(ByConfidence(Filter(compared, IsRevertEntry)), config.maxReportedMatches),
    Len(candidatePool), Len(compared), config)

\* The result of a run that made the check, from the evaluations.
DetectionResult(evaluations, candidatePool, config) ==
  ResultOfCompared(Compared(evaluations), candidatePool, config)

\* The result of a run with detection disabled.
DisabledResult ==
  [ checked |-> FALSE,
    skipReason |-> "disabled",
    flagged |-> FALSE,
    candidateCount |-> 0,
    comparedCount |-> 0,
    matches |-> <<>>,
    bestMatch |-> <<>>,
    reverts |-> <<>>,
    thresholds |-> [ fileOverlap |-> 0, structuralSimilarity |-> 0, metadataSimilarity |-> 0 ] ]

(***************************************************************************)
(* The state: the module-level cache of core/pr-cache, shared by all the   *)
(* runs of the process, and the runs of detectDuplicatePullRequest, each   *)
(* at its own place.                                                       *)
(***************************************************************************)

VARIABLES
  representationCache,  \* the Map of core/pr-cache, oldest insertion first
  cacheEvent,           \* the last call of setCachedRepresentation: what it found and left
  clock,                \* the number of cache calls made so far
  lastUse,              \* of each key, the time of its last put or of its last get that hit
  runs,                 \* of each run of detectDuplicatePullRequest, its locals
  evaluation,           \* a pair of pull requests, their representations and their similarity
  triage,               \* a pull request's comments and the run of the triage on it
  collection,           \* a call of collectPullRequests against a remote of any behaviour
  application,          \* a function of the program, its arguments and what it returned
  remoteRevision        \* of each pull request of the remote, the pushes to it so far

vars == << representationCache, cacheEvent, clock, lastUse, runs, evaluation, triage,
           collection, application, remoteRevision >>

\* No pull request has been pushed to since the remote was as RemotePulls.
NoPush == [ n \in DOMAIN RemotePulls |-> 0 ]

\* The files of a pull request after a push: the patch of its first file has
\* one more added line, which names the push.
PushedFiles(files, pushes) ==
  [ files EXCEPT ![1].patch = @ \o <<"\n", "+", "p">> \o NumberText(pushes) ]

\* A pull request of the remote after pushes to it: the remote has a new
\* head revision, a later time of update and other files.
PushedPull(pull, pushes) ==
  IF pushes = 0 THEN pull
  ELSE [ pr |-> [ pull.pr EXCEPT !.updated_at = Now + pushes,
                                 !.head_sha = @ \o <<"p">> \o NumberText(pushes) ],
         files |-> PushedFiles(pull.files, pushes) ]

\* The remote as it is now.
RemoteNow == [ n \in DOMAIN RemotePulls |-> PushedPull(RemotePulls[n], remoteRevision[n]) ]

\* The runs of detectDuplicatePullRequest the process may have at once.
RunIds == {"a", "b"}

NoCacheEvent == [ op |-> "none", key |-> <<>>, before |-> <<>>, after |-> <<>> ]

IdleRun ==
  [ phase |-> "idle",
    currentPullRequest |-> <<>>,
    config |-> DEFAULT_DUPLICATE_CONFIG,
    currentRepresentation |-> <<>>,
    candidatePool |-> <<>>,
    cursor |-> 0,
    results |-> <<>>,
    workers |-> <<>>,
    taken |-> <<>>,
    fetched |-> {},
    overtaken |-> FALSE,
    result |-> <<>> ]

NoEvaluation == [ phase |-> "none" ]

NoTriage == [ pc |-> "none" ]

NoCollection == [ pc |-> "none" ]

NoApplication == [ pc |-> "none" ]

Init ==
  /\ representationCache = <<>>
  /\ cacheEvent = NoCacheEvent
  /\ clock = 0
  /\ lastUse = <<>>
  /\ remoteRevision = NoPush
  /\ runs = [ r \in RunIds |-> IdleRun ]
  /\ evaluation = NoEvaluation
  /\ triage = NoTriage
  /\ collection = NoCollection
  /\ application = NoApplication

\* detectDuplicatePullRequest from its check of config.enabled on.
StartedRun(currentPullRequest, currentFiles, effectiveConfig) ==
  IF ~effectiveConfig.enabled
    THEN [ IdleRun EXCEPT !.phase = "done",
                          !.currentPullRequest = <<currentPullRequest>>,
                          !.config = effectiveConfig,
                          !.result = <<DisabledResult>> ]
    ELSE [ IdleRun EXCEPT !.phase = "collecting",
                          !.currentPullRequest = <<currentPullRequest>>,
                          !.config = effectiveConfig,
                          !.currentRepresentation =
                            << BuiltRepresentation(
                                 currentPullRequest, currentFiles, effectiveConfig) >> ]

\* detectDuplicatePullRequest is called and runs up to its first suspension:
\* it returns at once when detection is disabled, else it builds the current
\* representation and asks for the two lists of candidates.
StartRun(r, number, inputConfig) ==
  /\ runs[r].phase = "idle"
  /\ runs' = [ runs EXCEPT ![r] =
       StartedRun(RemoteNow[number].pr, listPullRequestFiles(RemoteNow, number),
                  normalizeDuplicateConfig(inputConfig)) ]
  /\ cacheEvent' = NoCacheEvent
  /\ UNCHANGED << representationCache, clock, lastUse, evaluation, triage, collection, application,
               remoteRevision >>

\* The run as mapWithConcurrency starts on the candidate pool.
CalledRun(run, candidatePool) ==
  [ run EXCEPT !.phase = "evaluating",
               !.candidatePool = candidatePool,
               !.results = [ i \in 1..Len(candidatePool) |-> [ set |-> FALSE, value |-> <<>> ] ],
               !.workers = [ w \in 1..WorkerLimit(run.config.candidateFetchConcurrency,
                                                  Len(candidatePool)) |->
                               [ pc |-> "new", index |-> 0, value |-> <<>> ] ] ]

\* The candidate pool of a run from the remote.
PoolOfRun(pulls, run) ==
  BuildCandidatePool(
    collectPullRequests(pulls, "open", run.config.maxOpenCandidates,
                        run.config.mergedLookbackDays),
    collectPullRequests(pulls, "closed", run.config.maxMergedCandidates,
                        run.config.mergedLookbackDays),
    run.currentPullRequest[1], run.currentRepresentation[1], run.config)

\* The run and the cache once every worker has reached its first suspension.
SpawnedRun(run, cache) == SpawnWorkers(CalledRun(run, PoolOfRun(RemoteNow, run)), cache, 1)

CollectInto(r, spawned) ==
  /\ runs' = [ runs EXCEPT ![r] = spawned.run ]
  /\ representationCache' = spawned.cache

\* Both lists of candidates have arrived: the run builds the candidate pool
\* and calls mapWithConcurrency, whose workers each run up to their first
\* suspension.
CollectReturn(r) ==
  /\ runs[r].phase = "collecting"
  /\ CollectInto(r, SpawnedRun(runs[r], representationCache))
  /\ cacheEvent' = NoCacheEvent
  /\ UNCHANGED << clock, lastUse, evaluation, triage, collection, application, remoteRevision >>

\* The run once worker w has stored the value its task returned.
StoredRun(run, worker) ==
  [ run EXCEPT !.results = StoreResult(@, worker.index, worker.value),
               !.overtaken = @ \/ \E i \in 1..worker.index : ~run.results[i].set ]

\* The task of worker w has returned: the worker stores the value at the
\* task's index and takes the next index.
TaskReturn(r, w) ==
  /\ runs[r].phase = "evaluating"
  /\ w \in DOMAIN runs[r].workers
  /\ runs[r].workers[w].pc = "resolved"
  /\ CollectInto(r, TakeNext(StoredRun(runs[r], runs[r].workers[w]), representationCache, w))
  /\ cacheEvent' = NoCacheEvent
  /\ UNCHANGED << clock, lastUse, evaluation, triage, collection, application, remoteRevision >>

\* The task of a worker from the arrival of the list of its candidate's files.
FetchedTask(run, cache, candidate) ==
  TaskAfterFetch(run, cache, candidate, listPullRequestFiles(RemoteNow, candidate.number))

FetchInto(r, w, index, candidate, cache, task) ==
  /\ runs' = [ runs EXCEPT ![r].workers[w] =
                 [ pc |-> "resolved", index |-> index, value |-> task.value ],
               ![r].fetched = @ \cup {candidate.number} ]
  /\ representationCache' = task.cache
  /\ cacheEvent' = [ op |-> "put", key |-> task.key,
                     before |-> CacheKeys(cache),
                     after |-> CacheKeys(task.cache) ]

FetchOf(r, w, run, candidate, cache) ==
  FetchInto(r, w, run.workers[w].index, candidate, cache, FetchedTask(run, cache, candidate))

\* The list of the candidate's files has arrived for the task of worker w:
\* the task builds the representation, puts it in the cache, evaluates it and
\* returns.
FetchReturn(r, w) ==
  /\ runs[r].phase = "evaluating"
  /\ w \in DOMAIN runs[r].workers
  /\ runs[r].workers[w].pc = "fetching"
  /\ FetchOf(r, w, runs[r], runs[r].candidatePool[runs[r].workers[w].index + 1],
             representationCache)
  /\ UNCHANGED << clock, lastUse, evaluation, triage, collection, application, remoteRevision >>

\* Promise.all(workers) is settled: every worker has left its loop.  The
\* run ranks the evaluations and returns.
Finish(r) ==
  LET run == runs[r]
  IN /\ run.phase = "evaluating"
     /\ \A w \in DOMAIN run.workers : run.workers[w].pc = "exited"
     /\ runs' = [ runs EXCEPT ![r].phase = "done",
                              ![r].result =
                                << DetectionResult(run.results, run.candidatePool, run.config) >> ]
     /\ cacheEvent' = NoCacheEvent
     /\ UNCHANGED << representationCache, clock, lastUse, evaluation, triage, collection, application,
               remoteRevision >>

Next ==
  \/ \E r \in RunIds, number \in CurrentNumbers, c \in DOMAIN ConfigInputs :
       StartRun(r, number, ConfigInputs[c])
  \/ \E r \in RunIds : CollectReturn(r)
  \/ \E r \in RunIds, w \in 1..12 : TaskReturn(r, w)
  \/ \E r \in RunIds, w \in 1..12 : FetchReturn(r, w)
  \/ \E r \in RunIds : Finish(r)

Spec == Init /\ [][Next]_vars

(***************************************************************************)
(* The cache alone, under every sequence of its two calls.                 *)
(***************************************************************************)

\* The number of cache calls of a sequence.
MaxCacheCalls == 6

\* The pull requests whose representations the calls put and get.
CachedPulls == {1, 2, 3, 5, 9}

CacheCallKey(n) == getRepresentationCacheKey(OWNER, REPO, RemotePulls[n].pr, EffectiveConfigs[1])

\* The times of the last put and of the last use of the keys the cache
\* holds, after a call at time now that used the key (used) or found nothing.
UsesAfter(uses, cacheAfter, key, used, isPut, now) ==
  LET keys == Range(CacheKeys(cacheAfter))
      known(k) == \E i \in DOMAIN uses : uses[i].key = k
      old(k) == uses[CHOOSE i \in DOMAIN uses : uses[i].key = k]
      entry(k) ==
        IF k = key /\ used
          THEN [ key |-> k, put |-> IF isPut \/ ~known(k) THEN now ELSE old(k).put, use |-> now ]
          ELSE old(k)
      order == CacheKeys(cacheAfter)
  IN [ i \in DOMAIN order |-> entry(order[i]) ]

\* getCachedRepresentation(cacheKey)
CacheGet(n) ==
  LET key == CacheCallKey(n)
      got == getCachedRepresentation(representationCache, key)
  IN /\ clock < MaxCacheCalls
     /\ clock' = clock + 1
     /\ representationCache' = got.cache
     /\ cacheEvent' = [ op |-> "get", key |-> key,
                        before |-> CacheKeys(representationCache),
                        after |-> CacheKeys(got.cache) ]
     /\ lastUse' = UsesAfter(lastUse, representationCache, key, got.value # <<>>, FALSE, clock + 1)
     /\ UNCHANGED << runs, evaluation, triage, collection, application, remoteRevision >>

\* setCachedRepresentation(cacheKey, representation)
CachePut(n) ==
  LET key == CacheCallKey(n)
      cache == setCachedRepresentation(representationCache, key, RepresentationTable[1][n])
  IN /\ clock < MaxCacheCalls
     /\ clock' = clock + 1
     /\ representationCache' = cache
     /\ cacheEvent' = [ op |-> "put", key |-> key,
                        before |-> CacheKeys(representationCache),
                        after |-> CacheKeys(cache) ]
     /\ lastUse' = UsesAfter(lastUse, cache, key, TRUE, TRUE, clock + 1)
     /\ UNCHANGED << runs, evaluation, triage, collection, application, remoteRevision >>

NextCache ==
  \/ \E n \in CachedPulls : CacheGet(n)
  \/ \E n \in CachedPulls : CachePut(n)

SpecCache == Init /\ [][NextCache]_vars

(***************************************************************************)
(* The properties.                                                         *)
(***************************************************************************)

UseOf(uses, key) == uses[CHOOSE i \in DOMAIN uses : uses[i].key = key]

\* A put of a key the cache does not hold, into a full cache.
OverflowingPut(event) ==
  /\ event.op = "put"
  /\ event.key \notin Range(event.before)
  /\ Len(event.before) = REPRESENTATION_CACHE_MAX_ENTRIES

\* C1: the eviction is least-recently-used with promotion on read.  Whenever
\* a put of a new key pushes the cache over its bound, exactly the entry
\* whose last use (its put, or a later get that hit) is the oldest is
\* removed; so an entry that a get hit since is not the one removed while an
\* older entry is there.
C1_EvictsLeastRecentlyUsed ==
  [][ OverflowingPut(cacheEvent') =>
        \E victim \in Range(CacheKeys(representationCache)) :
          /\ Range(CacheKeys(representationCache')) =
               (Range(CacheKeys(representationCache)) \ {victim}) \cup {cacheEvent'.key}
          /\ \A key \in Range(CacheKeys(representationCache)) :
               UseOf(lastUse, victim).use <= UseOf(lastUse, key).use ]_vars

\* C1, its case: an overflowing put has removed an entry, and the entry put
\* first of all, which a get hit later, is still there.
C1_Witness ==
  /\ OverflowingPut(cacheEvent)
  /\ Len(cacheEvent.after) = REPRESENTATION_CACHE_MAX_ENTRIES
  /\ \E i \in DOMAIN lastUse :
       /\ lastUse[i].put = 1
       /\ lastUse[i].use > 1
       /\ lastUse[i].key # cacheEvent.key

\* C2: in every state the cache holds at most
\* REPRESENTATION_CACHE_MAX_ENTRIES entries and each key once, so that its
\* order of recency lists exactly the keys it holds; and a put leaves the
\* cache with the key put as its newest entry, having removed exactly one
\* entry when it found the cache full without the key, and none otherwise.
C2_CacheWithinBound ==
  LET keys == CacheKeys(representationCache)
      before == Range(cacheEvent.before)
      after == Range(cacheEvent.after)
  IN /\ Len(keys) <= REPRESENTATION_CACHE_MAX_ENTRIES
     /\ Cardinality(Range(keys)) = Len(keys)
     /\ cacheEvent.op = "put" =>
          /\ keys = cacheEvent.after
          /\ keys[Len(keys)] = cacheEvent.key
          /\ IF OverflowingPut(cacheEvent)
               THEN /\ Cardinality(before \ after) = 1
                    /\ after = (before \cap after) \cup {cacheEvent.key}
                    /\ Len(keys) = REPRESENTATION_CACHE_MAX_ENTRIES
               ELSE after = before \cup {cacheEvent.key}

\* C2, its case: a put by a worker of one run has pushed an entry out of the
\* full cache while the other run is evaluating too and a task is still
\* waiting for its files.
C2_Witness ==
  /\ OverflowingPut(cacheEvent)
  /\ \A r \in RunIds : runs[r].phase = "evaluating"
  /\ \E r \in RunIds : \E w \in DOMAIN runs[r].workers : runs[r].workers[w].pc = "fetching"

\* The runs that have called mapWithConcurrency.
Mapping == { r \in RunIds : runs[r].phase = "evaluating" \/
                            (runs[r].phase = "done" /\ runs[r].result[1].checked) }

\* The runs that made the check and have returned.
Returned == { r \in RunIds : runs[r].phase = "done" /\ runs[r].result[1].checked }

\* What the task returns for the item of an index, were it run alone.
ValueOfItem(run, index) ==
  LET candidate == run.candidatePool[index + 1]
  IN IF SkipsEarly(candidate, run.currentRepresentation[1], run.config) THEN <<>>
     ELSE TaskValue(run.currentRepresentation[1], candidate,
                    BuiltRepresentation(candidate,
                                        listPullRequestFiles(RemotePulls, candidate.number),
                                        run.config),
                    run.config)

InFlight(run) == { w \in DOMAIN run.workers : run.workers[w].pc \in {"fetching", "resolved"} }

\* C3: mapWithConcurrency over the candidate pool. At most
\* candidateFetchConcurrency tasks are in flight; the indices are started
\* once each, in order; a started task is either the one task of one
\* worker or has its value stored at its own index; the value stored at an
\* index is the value of the task for the item of that index; and the call has
\* returned only when every worker has left and every item has its value.
C3_MapWithConcurrency ==
  \A r \in Mapping :
    LET run == runs[r]
        items == run.candidatePool
        unstored == { i \in Range(run.taken) : ~run.results[i + 1].set }
    IN /\ Cardinality(InFlight(run)) <= run.config.candidateFetchConcurrency
       /\ run.taken = [ k \in 1..Len(run.taken) |-> k - 1 ]
       /\ Len(run.taken) <= Len(items)
       /\ { run.workers[w].index : w \in InFlight(run) } = unstored
       /\ Cardinality(InFlight(run)) = Cardinality(unstored)
       /\ \A i \in DOMAIN run.results :
            /\ run.results[i].set => (i - 1) \in Range(run.taken)
            /\ run.results[i].set => run.results[i].value = ValueOfItem(run, i - 1)
       /\ run.phase = "done" =>
            /\ InFlight(run) = {}
            /\ Len(run.taken) = Len(items)
            /\ \A i \in DOMAIN run.results : run.results[i].set

\* C3, its case: a call over more items than workers has returned, after a
\* task was stored before the task of an earlier item.
C3_Witness ==
  \E r \in Returned :
    /\ Len(runs[r].candidatePool) > runs[r].config.candidateFetchConcurrency
    /\ Len(runs[r].workers) = runs[r].config.candidateFetchConcurrency
    /\ runs[r].overtaken
    /\ \E i \in DOMAIN runs[r].results : runs[r].results[i].value # <<>>

\* The result of the run had the tasks run one after the other, in the
\* order of the pool.
SequentialResult(run) ==
  DetectionResult([ i \in DOMAIN run.candidatePool |->
                      [ set |-> TRUE, value |-> ValueOfItem(run, i - 1) ] ],
                  run.candidatePool, run.config)

\* C4: the matches and the reverts a run returns, members and order, are
\* those of the pool evaluated in its own order: they depend on no
\* interleaving or order of completion of the workers.
C4_RankingIndependentOfCompletionOrder ==
  \A r \in Returned :
    /\ runs[r].result[1].matches = SequentialResult(runs[r]).matches
    /\ runs[r].result[1].reverts = SequentialResult(runs[r]).reverts

\* Two entries of the list, of equal confidence.
HasTie(entries) ==
  \E i, j \in DOMAIN entries :
    i < j /\ entries[i].similarity.confidence = entries[j].similarity.confidence

\* C4, its case: a run has returned two candidates of equal confidence,
\* after a task was stored before the task of an earlier item.
C4_Witness ==
  \E r \in Returned :
    /\ runs[r].overtaken
    /\ HasTie(runs[r].result[1].matches) \/ HasTie(runs[r].result[1].reverts)

NonIncreasing(entries) ==
  \A i, j \in DOMAIN entries :
    i < j => entries[i].similarity.confidence >= entries[j].similarity.confidence

\* C5: of every run that made the check, matches holds duplicates only, in
\* non-increasing confidence, at most maxReportedMatches of them; reverts
\* holds reverts only, likewise; flagged is true exactly when matches is not
\* empty; bestMatch is the first of matches, or null when there is none.
C5_ResultShape ==
  \A r \in Returned :
    LET result == runs[r].result[1]
        most == runs[r].config.maxReportedMatches
    IN /\ \A i \in DOMAIN result.matches : result.matches[i].similarity.isDuplicate
       /\ NonIncreasing(result.matches)
       /\ Len(result.matches) <= most
       /\ \A i \in DOMAIN result.reverts : result.reverts[i].similarity.isRevert
       /\ NonIncreasing(result.reverts)
       /\ Len(result.reverts) <= most
       /\ result.flagged <=> result.matches # <<>>
       /\ result.bestMatch = IF result.matches = <<>> THEN <<>> ELSE <<result.matches[1]>>

\* C5, its case: a run has returned matches of different confidence, whose
\* evaluations were not in that order.
C5_Witness ==
  \E r \in Returned :
    LET matches == runs[r].result[1].matches
    IN /\ Len(matches) >= 2
       /\ matches[1].similarity.confidence > matches[Len(matches)].similarity.confidence
       /\ Compared(runs[r].results)[1].number = matches[Len(matches)].number

\* The pull requests of the remote that are the current one of the run, or
\* have no base branch, or another base branch than the current one.
OffBase(run) ==
  { n \in DOMAIN RemotePulls :
      LET candidate == RemotePulls[n].pr
      IN \/ candidate.number = run.currentPullRequest[1].number
         \/ candidate.base = NoBase
         \/ candidate.base # run.currentPullRequest[1].base }

NumbersOf(entries) == { entries[i].number : i \in DOMAIN entries }

\* C10: in every run, no candidate with the number of the current pull
\* request, with no base branch or with another base branch than the current
\* one is in the candidate pool; the files of none are asked for; none is
\* among the matches or the reverts returned.
C10_OffBaseCandidatesExcluded ==
  \A r \in Mapping :
    LET run == runs[r]
    IN /\ NumbersOf(run.candidatePool) \cap OffBase(run) = {}
       /\ run.fetched \cap OffBase(run) = {}
       /\ run.phase = "done" =>
            /\ NumbersOf(run.result[1].matches) \cap OffBase(run) = {}
            /\ NumbersOf(run.result[1].reverts) \cap OffBase(run) = {}

\* C10, its case: a run has returned matches, while a pull request on
\* another base branch, left out, is a duplicate of the current one by its
\* patch.
C10_Witness ==
  \E r \in Returned :
    LET run == runs[r]
    IN /\ run.result[1].matches # <<>>
       /\ run.fetched # {}
       /\ \E n \in OffBase(run) :
            /\ n # run.currentPullRequest[1].number
            /\ RemotePulls[n].pr.base # NoBase
            /\ EvaluatedSimilarity(run.currentRepresentation[1],
                                   BuiltRepresentation(RemotePulls[n].pr, RemotePulls[n].files,
                                                       run.config),
                                   run.config).isDuplicate

(***************************************************************************)
(* The evaluation alone: the representations of two pull requests are      *)
(* built under one configuration and compared.                             *)
(***************************************************************************)

\* The configurations of the evaluations: the default thresholds, a file
\* overlap threshold at and just above one half, and thresholds at the
\* metrics of the pull requests 11 and 8.
EvaluationConfigInputs ==
  << [ name \in {"metadataVectorSize"} |-> NumberValue(32) ],
     [ name \in {"metadataVectorSize", "fileOverlapThreshold"} |->
         IF name = "metadataVectorSize" THEN NumberValue(32) ELSE NumberValue(500) ],
     [ name \in {"metadataVectorSize", "fileOverlapThreshold"} |->
         IF name = "metadataVectorSize" THEN NumberValue(32) ELSE NumberValue(501) ],
     [ name \in {"metadataVectorSize", "fileOverlapThreshold", "structuralSimilarityThreshold",
                  "metadataSimilarityThreshold"} |->
         IF name = "metadataVectorSize" THEN NumberValue(32)
         ELSE IF name = "fileOverlapThreshold" THEN NumberValue(666)
         ELSE IF name = "structuralSimilarityThreshold" THEN NumberValue(866)
         ELSE NumberValue(962) ] >>

\* The pull requests taken as the current one of an evaluation.
EvaluatedCurrents == {1, 3, 5, 8, 11, 12, 13}

InitEvaluation ==
  /\ representationCache = <<>>
  /\ cacheEvent = NoCacheEvent
  /\ clock = 0
  /\ lastUse = <<>>
  /\ remoteRevision = NoPush
  /\ runs = [ r \in RunIds |-> IdleRun ]
  /\ triage = NoTriage
  /\ collection = NoCollection
  /\ application = NoApplication
  /\ \E current \in EvaluatedCurrents, candidate \in DOMAIN RemotePulls,
        c \in DOMAIN EvaluationConfigInputs :
       evaluation = [ phase |-> "input",
                      current |-> RemotePulls[current],
                      candidate |-> RemotePulls[candidate],
                      config |-> normalizeDuplicateConfig(EvaluationConfigInputs[c]),
                      representations |-> <<>>,
                      similarity |-> <<>> ]

\* buildPullRequestRepresentation, of the current pull request and of the
\* candidate.
Build ==
  /\ evaluation.phase = "input"
  /\ evaluation' =
       [ evaluation EXCEPT
           !.phase = "built",
           !.representations =
             << buildPullRequestRepresentation(evaluation.current.pr, evaluation.current.files,
                                               evaluation.config),
                buildPullRequestRepresentation(evaluation.candidate.pr,
                                               evaluation.candidate.files,
                                               evaluation.config) >> ]
  /\ UNCHANGED << representationCache, cacheEvent, clock, lastUse, runs, triage, collection,
               application, remoteRevision >>

\* evaluateCandidateSimilarity, of the two representations.
Evaluate ==
  /\ evaluation.phase = "built"
  /\ evaluation' =
       [ evaluation EXCEPT
           !.phase = "evaluated",
           !.similarity =
             << evaluateCandidateSimilarity(evaluation.representations[1],
                                            evaluation.representations[2],
                                            evaluation.config) >> ]
  /\ UNCHANGED << representationCache, cacheEvent, clock, lastUse, runs, triage, collection,
               application, remoteRevision >>

NextEvaluation ==
  \/ Build
  \/ Evaluate

SpecEvaluation == InitEvaluation /\ [][NextEvaluation]_vars

Evaluated == evaluation.phase = "evaluated"

\* The exact duplicate and the near duplicate of the classification, from
\* the metrics returned and the thresholds.
ExactByMetrics(metrics, config) ==
  \/ metrics.patchIdMatch
  \/ /\ metrics.normalizedDiffHashMatch
     /\ metrics.filePathHashMatch
     /\ metrics.fileOverlap >= config.fileOverlapThreshold

NearByMetrics(metrics, config) ==
  /\ metrics.fileOverlap >= config.fileOverlapThreshold
  /\ metrics.structuralSimilarity >= config.structuralSimilarityThreshold
  /\ metrics.metadataSimilarity >= config.metadataSimilarityThreshold

\* C6: the classification has inclusive thresholds.  isDuplicate is the
\* exact duplicate (a patch identity match, or a match of the diff hash and
\* of the file path hash with the file overlap at or above its threshold) or
\* the near duplicate (the file overlap, the structural and the metadata
\* similarity each at or above its threshold); isRevert is the inverse patch
\* match, whatever isDuplicate is.
C6_InclusiveThresholds ==
  Evaluated =>
    LET similarity == evaluation.similarity[1]
        metrics == similarity.metrics
    IN /\ similarity.isDuplicate <=>
            (ExactByMetrics(metrics, evaluation.config) \/ NearByMetrics(metrics, evaluation.config))
       /\ similarity.isRevert <=> metrics.inversePatchMatch
       /\ metrics.inversePatchMatch <=>
            (evaluation.representations[1].patchFingerprint =
               evaluation.representations[2].inversePatchFingerprint)
       /\ metrics.patchIdMatch <=>
            (evaluation.representations[1].patchFingerprint =
               evaluation.representations[2].patchFingerprint)

\* C6, its case: a pair that is no exact duplicate, with the file overlap
\* equal to the threshold, is a duplicate.
C6_Witness ==
  /\ Evaluated
  /\ ~evaluation.similarity[1].metrics.patchIdMatch
  /\ evaluation.similarity[1].metrics.fileOverlap = evaluation.config.fileOverlapThreshold
  /\ evaluation.similarity[1].isDuplicate

\* C6, the other side of the boundary: the same file overlap, just below the
\* threshold, and the pair is no duplicate.
C6_WitnessBelow ==
  /\ Evaluated
  /\ evaluation.similarity[1].metrics.fileOverlap + 1 = evaluation.config.fileOverlapThreshold
  /\ evaluation.similarity[1].metrics.structuralSimilarity = ONE
  /\ ~evaluation.similarity[1].isDuplicate

\* The blend of the metrics, in millionths.
BlendOf(metrics) ==
  metrics.fileOverlap * 340 + metrics.structuralSimilarity * 320
    + metrics.metadataSimilarity * 220
    + Max3(metrics.functionOverlap, metrics.classOverlap, metrics.importOverlap) * 120

\* C7: the confidence lies in [0, 1]; it is 1 exactly when the pair is an
\* exact duplicate; it is 0.96 when the pair is no exact duplicate and an
\* inverse patch match; else it is the blend 0.34 fileOverlap + 0.32
\* structural + 0.22 metadata + 0.12 max(function, class, import overlap),
\* clamped to [0, 0.999].  So a pair that is no exact duplicate has a
\* confidence below 1.
C7_ConfidenceBounds ==
  Evaluated =>
    LET similarity == evaluation.similarity[1]
        metrics == similarity.metrics
        exact == ExactByMetrics(metrics, evaluation.config)
        blend == BlendOf(metrics)
    IN /\ similarity.confidence >= 0
       /\ similarity.confidence <= CONFIDENCE_ONE
       /\ similarity.confidence = CONFIDENCE_ONE <=> exact
       /\ (~exact /\ metrics.inversePatchMatch) => similarity.confidence = 960 * ONE
       /\ (~exact /\ ~metrics.inversePatchMatch) =>
            similarity.confidence =
              (IF blend < 0 THEN 0 ELSE IF blend > 999 * ONE THEN 999 * ONE ELSE blend)

\* C7, its case: a pair that is neither an exact duplicate nor a revert has
\* a blend of 1 and a confidence of 0.999.
C7_Witness ==
  /\ Evaluated
  /\ ~ExactByMetrics(evaluation.similarity[1].metrics, evaluation.config)
  /\ ~evaluation.similarity[1].metrics.inversePatchMatch
  /\ BlendOf(evaluation.similarity[1].metrics) >= CONFIDENCE_ONE
  /\ evaluation.similarity[1].confidence = 999 * ONE

\* The normalized lines a pull request adds and removes, over its files.
ChangedLines(files, config) ==
  LET featureOf(file) == buildFileFeatures(file, config)
      fileFeatures == MapSeq(files, featureOf)
  IN [ added |-> SortStrings(Flatten([ i \in DOMAIN fileFeatures |-> fileFeatures[i].addedLines ])),
       removed |->
         SortStrings(Flatten([ i \in DOMAIN fileFeatures |-> fileFeatures[i].removedLines ])) ]

\* The candidate adds the lines the current pull request removes and
\* removes the lines it adds.
Swapped ==
  LET current == ChangedLines(evaluation.current.files, evaluation.config)
      candidate == ChangedLines(evaluation.candidate.files, evaluation.config)
  IN candidate.added = current.removed /\ candidate.removed = current.added

\* C8: when the normalized added lines of B are the normalized removed
\* lines of A and the normalized removed lines of B are the normalized added
\* lines of A, both built under one configuration, the patch fingerprint of A
\* is the inverse patch fingerprint of B and the evaluation of A against B is
\* a revert.
C8_SwappedLinesAreRevert ==
  (Evaluated /\ Swapped) =>
    /\ evaluation.representations[1].patchFingerprint =
         evaluation.representations[2].inversePatchFingerprint
    /\ evaluation.similarity[1].isRevert

\* C8, its case: a pull request that adds other lines than it removes has
\* been evaluated against its inverse.
C8_Witness ==
  /\ Evaluated
  /\ Swapped
  /\ LET current == ChangedLines(evaluation.current.files, evaluation.config)
     IN current.added # <<>> /\ current.removed # <<>> /\ current.added # current.removed
  /\ evaluation.similarity[1].isRevert
  /\ ~evaluation.similarity[1].isDuplicate

\* C9: two pull requests of the same files with the same patch texts,
\* whatever their numbers, titles and bodies, are duplicates by patch
\* identity, with confidence 1.
C9_IdenticalPatchesAreExactDuplicates ==
  (Evaluated /\ evaluation.current.files = evaluation.candidate.files) =>
    /\ evaluation.similarity[1].isDuplicate
    /\ evaluation.similarity[1].reason = "patch-id-match"
    /\ evaluation.similarity[1].metrics.patchIdMatch
    /\ evaluation.similarity[1].confidence = CONFIDENCE_ONE

\* C9, its case: two pull requests of other numbers, titles and bodies, with
\* the same files that change lines, have been evaluated.
C9_Witness ==
  /\ Evaluated
  /\ evaluation.current.files = evaluation.candidate.files
  /\ evaluation.current.pr.number # evaluation.candidate.pr.number
  /\ evaluation.current.pr.title # evaluation.candidate.pr.title
  /\ evaluation.current.pr.body # evaluation.candidate.pr.body
  /\ ChangedLines(evaluation.current.files, evaluation.config).added # <<>>
  /\ evaluation.similarity[1].metrics.metadataSimilarity < ONE
  /\ evaluation.similarity[1].reason = "patch-id-match"

(***************************************************************************)
(* The lookback window: one run at a time, under configurations that move  *)
(* the window over the merge times of the remote (pull request 3 was       *)
(* merged 10 days before the call, pull request 6 300 days before it,      *)
(* pull request 10 was closed and never merged).                           *)
(***************************************************************************)

LookbackConfigInputs ==
  << [ name \in {"maxOpenCandidates", "candidateFetchConcurrency"} |->
         IF name = "maxOpenCandidates" THEN NumberValue(4) ELSE NumberValue(2) ],
     [ name \in {"maxOpenCandidates", "candidateFetchConcurrency", "mergedLookbackDays"} |->
         IF name = "maxOpenCandidates" THEN NumberValue(4)
         ELSE IF name = "candidateFetchConcurrency" THEN NumberValue(2) ELSE NumberValue(10) ],
     [ name \in {"maxOpenCandidates", "candidateFetchConcurrency", "mergedLookbackDays"} |->
         IF name = "maxOpenCandidates" THEN NumberValue(4)
         ELSE IF name = "candidateFetchConcurrency" THEN NumberValue(2) ELSE NumberValue(9) ],
     [ name \in {"maxOpenCandidates", "candidateFetchConcurrency", "mergedLookbackDays"} |->
         IF name = "maxOpenCandidates" THEN NumberValue(4)
         ELSE IF name = "candidateFetchConcurrency" THEN NumberValue(2) ELSE NumberValue(300) ] >>

\* The pull requests the runs of the lookback window are called for.
LookbackCurrents == {1, 2, 9}

NextLookback ==
  \/ \E number \in LookbackCurrents, c \in DOMAIN LookbackConfigInputs :
       StartRun("a", number, LookbackConfigInputs[c])
  \/ CollectReturn("a")
  \/ \E w \in 1..12 : TaskReturn("a", w)
  \/ \E w \in 1..12 : FetchReturn("a", w)
  \/ Finish("a")

SpecLookback == Init /\ [][NextLookback]_vars

\* The closed pull requests of the remote that were never merged, or merged
\* more than the run's mergedLookbackDays before the call.
OutOfWindow(run) ==
  { n \in DOMAIN RemotePulls :
      LET candidate == RemotePulls[n].pr
      IN /\ candidate.state = "closed"
         /\ \/ candidate.merged_at = NullNumber
            \/ Now - candidate.merged_at > run.config.mergedLookbackDays }

\* What collectPullRequests returns to a run for the state 'closed'.
MergedCandidatesOf(run) ==
  collectPullRequests(RemotePulls, "closed", run.config.maxMergedCandidates,
                      run.config.mergedLookbackDays)

\* C11: collectPullRequests with state 'closed' returns no pull request that
\* was never merged or that was merged more than mergedLookbackDays before
\* the call; the run has no such pull request in its candidate pool, asks for
\* the files of none, and has none among the entries it evaluated, the
\* matches or the reverts.
C11_OutOfWindowNeverRetrieved ==
  \A r \in RunIds :
    LET run == runs[r]
    IN (run.phase \in {"collecting", "evaluating", "done"} /\ run.config.enabled) =>
         /\ NumbersOf(MergedCandidatesOf(run)) \cap OutOfWindow(run) = {}
         /\ NumbersOf(run.candidatePool) \cap OutOfWindow(run) = {}
         /\ run.fetched \cap OutOfWindow(run) = {}
         /\ NumbersOf(Compared(run.results)) \cap OutOfWindow(run) = {}
         /\ run.phase = "done" =>
              /\ NumbersOf(run.result[1].matches) \cap OutOfWindow(run) = {}
              /\ NumbersOf(run.result[1].reverts) \cap OutOfWindow(run) = {}

\* C11, its case: a run has returned; a pull request merged within the
\* window was retrieved, its files were asked for and it is reported, while a
\* merged pull request out of the window, left out, carries the very patch
\* of the current one.
C11_Witness ==
  LET run == runs["a"]
  IN /\ run.phase = "done"
     /\ run.result[1].checked
     /\ \E n \in run.fetched :
          /\ RemotePulls[n].pr.merged_at # NullNumber
          /\ n \in NumbersOf(run.result[1].reverts) \cup NumbersOf(run.result[1].matches)
     /\ \E n \in OutOfWindow(run) :
          /\ RemotePulls[n].pr.merged_at # NullNumber
          /\ RemotePulls[n].pr.base = run.currentPullRequest[1].base
          /\ RemotePulls[n].files = listPullRequestFiles(RemotePulls, run.currentPullRequest[1].number)

(***************************************************************************)
(* triage: runTriageForPullRequest and runDuplicateCheckForPullRequest on  *)
(* one pull request, one run after the other.  The comments of the pull    *)
(* request are kept with the markers their bodies include; the run of      *)
(* detectDuplicatePullRequest the check calls is the run "a" above, whose  *)
(* requests to the remote may fail.                                        *)
(***************************************************************************)

DUPLICATE_COMMENT_MARKER == "<!-- heimdall-duplicate-bot -->"
BOT_COMMENT_MARKER == "<!-- heimdall-bot -->"

\* The number of runs of the triage in a behaviour.
MaxTriageRuns == 3

\* The pull request the triage runs on.
TriagePull == 1

\* The duplicate configurations of the runs: one that finds duplicates of the
\* pull request, one that finds none, two that disable the detection, one
\* that runs it on the initial submission only.
TriageConfigInputs ==
  << [ name \in {"maxOpenCandidates", "candidateFetchConcurrency"} |->
         IF name = "maxOpenCandidates" THEN NumberValue(4) ELSE NumberValue(2) ],
     [ name \in {"maxOpenCandidates", "candidateFetchConcurrency"} |->
         IF name = "maxOpenCandidates" THEN NumberValue(1) ELSE NumberValue(2) ],
     [ name \in {"enabled"} |-> BooleanValue(FALSE) ],
     [ name \in {"enabled", "onlyOnOpened"} |->
         IF name = "enabled" THEN BooleanValue(FALSE) ELSE BooleanValue(TRUE) ],
     [ name \in {"onlyOnOpened", "maxOpenCandidates", "candidateFetchConcurrency"} |->
         IF name = "onlyOnOpened" THEN BooleanValue(TRUE)
         ELSE IF name = "maxOpenCandidates" THEN NumberValue(4) ELSE NumberValue(2) ] >>

\* The actions of the events that trigger a run; "" is a run with no action.
EventActions == {"", "opened", "reopened", "synchronize"}

\* The clients: one with github.rest.pulls.list, one without.
Clients == {"rest", "no-pulls-list"}

\* buildSkippedDuplicateDetection(skipReason); thresholds: null is left out.
buildSkippedDuplicateDetection(skipReason) ==
  [ checked |-> FALSE,
    skipReason |-> skipReason,
    flagged |-> FALSE,
    candidateCount |-> 0,
    comparedCount |-> 0,
    matches |-> <<>>,
    bestMatch |-> <<>>,
    reverts |-> <<>> ]

\* An effective configuration as the object detectDuplicatePullRequest is
\* given, which it normalizes again.
AsInputConfig(config) ==
  [ name \in DOMAIN config |->
      IF name \in {"enabled", "onlyOnOpened"} THEN BooleanValue(config[name])
      ELSE NumberValue(config[name]) ]

\* A check that asks for the client before it asks for the event action.
SkipReasonClientFirst(config, eventAction, client) ==
  IF ~config.enabled THEN "disabled"
  ELSE IF client # "rest" THEN "unsupported-client"
  ELSE IF config.onlyOnOpened /\ eventAction # "" /\ eventAction # "opened"
          /\ eventAction # "reopened"
    THEN "non-opened-action"
  ELSE ""

\* The three early returns of runDuplicateCheckForPullRequest: the reason of
\* the skip, or "" when the check goes on to the detection.
SkipReasonOf(config, eventAction, client) ==
  IF ~config.enabled THEN "disabled"
  ELSE IF config.onlyOnOpened /\ eventAction # "" /\ eventAction # "opened"
          /\ eventAction # "reopened"
    THEN "non-opened-action"
  ELSE IF client # "rest" THEN "unsupported-client"
  ELSE ""

\* A search that finds no comment.
FindsNoComment(comments, marker) == 0

\* findExistingManagedComment: the place of the first comment whose body
\* includes the marker, or 0 (undefined).
findExistingManagedComment(comments, marker) ==
  LeastOrZero({ i \in DOMAIN comments : marker \in comments[i].markers })

\* The comments without the one at a place.
WithoutPlace(comments, place) ==
  Pick(comments, SeqOfIndices(DOMAIN comments \ {place}))

\* The remote's comments after upsertManagedComment found the comment at
\* `place` (0: none): issues.updateComment of that comment, else
\* issues.createComment.  The body holds the marker.
UpsertedAt(comments, place, marker, nextId) ==
  IF place # 0 THEN [ comments EXCEPT ![place].markers = {marker} ]
  ELSE Append(comments, [ id |-> nextId, markers |-> {marker} ])

upsertManagedComment(comments, marker, nextId) ==
  UpsertedAt(comments, findExistingManagedComment(comments, marker), marker, nextId)

\* The remote's comments after deleteManagedComment found the comment at
\* `place`: issues.deleteComment of that comment, if any.
DeletedAt(comments, place) ==
  IF place = 0 THEN comments ELSE WithoutPlace(comments, place)

deleteManagedComment(comments, marker) ==
  DeletedAt(comments, findExistingManagedComment(comments, marker))

\* The requests to the remote of an upsert and of a deletion.
UpsertCalls(place) ==
  << "issues.listComments", IF place # 0 THEN "issues.updateComment" ELSE "issues.createComment" >>

DeleteCalls(place) ==
  IF place = 0 THEN << "issues.listComments" >>
  ELSE << "issues.listComments", "issues.deleteComment" >>

InitTriage ==
  /\ representationCache = <<>>
  /\ cacheEvent = NoCacheEvent
  /\ clock = 0
  /\ lastUse = <<>>
  /\ remoteRevision = NoPush
  /\ runs = [ r \in RunIds |-> IdleRun ]
  /\ evaluation = NoEvaluation
  /\ collection = NoCollection
  /\ application = NoApplication
  /\ triage = [ pc |-> "idle",
                started |-> 0,
                comments |-> << [ id |-> 1, markers |-> {} ] >>,
                nextId |-> 2,
                config |-> DEFAULT_DUPLICATE_CONFIG,
                eventAction |-> "",
                client |-> "rest",
                commentsAtStart |-> <<>>,
                calls |-> <<>>,
                checkCalls |-> <<>>,
                duplicateDetection |-> <<>>,
                result |-> <<>> ]

\* The run from the first statement of runDuplicateCheckForPullRequest to its
\* first suspension, the reason of the skip being given.
CheckStarted(started, config, reason) ==
  IF reason # ""
    THEN [ started EXCEPT !.pc = "commits",
                          !.config = config,
                          !.duplicateDetection = << buildSkippedDuplicateDetection(reason) >> ]
    ELSE [ started EXCEPT !.pc = "detecting", !.config = config ]

\* The locals of detectDuplicatePullRequest after the same statements.
DetectionStarted(pull, config, reason) ==
  IF reason # "" THEN IdleRun
  ELSE StartedRun(pull.pr, pull.files, normalizeDuplicateConfig(AsInputConfig(config)))

TriageStartWith(started, config, eventAction, client) ==
  /\ triage' = CheckStarted(started, config, SkipReasonOf(config, eventAction, client))
  /\ runs' = [ runs EXCEPT !["a"] =
                 DetectionStarted(RemoteNow[TriagePull], config,
                                  SkipReasonOf(config, eventAction, client)) ]

\* runTriageForPullRequest is called, gets the pull request and its files,
\* and calls runDuplicateCheckForPullRequest, which runs up to its first
\* suspension.
TriageStart(duplicateConfig, eventAction, client) ==
  /\ triage.pc = "idle"
  /\ triage.started < MaxTriageRuns
  /\ TriageStartWith([ triage EXCEPT !.started = @ + 1,
                                     !.eventAction = eventAction,
                                     !.client = client,
                                     !.commentsAtStart = triage.comments,
                                     !.calls = << "pulls.get", "pulls.listFiles" >>,
                                     !.checkCalls = <<>>,
                                     !.duplicateDetection = <<>>,
                                     !.result = <<>> ],
                     normalizeDuplicateConfig(duplicateConfig), eventAction, client)
  /\ cacheEvent' = NoCacheEvent
  /\ UNCHANGED << representationCache, clock, lastUse, evaluation, collection, application,
               remoteRevision >>

\* A request of collectPullRequests to the remote fails: the run of
\* detectDuplicatePullRequest throws.
CollectFails(r) ==
  /\ triage.pc = "detecting"
  /\ runs[r].phase = "collecting"
  /\ runs' = [ runs EXCEPT ![r].phase = "failed" ]
  /\ cacheEvent' = NoCacheEvent
  /\ UNCHANGED << representationCache, clock, lastUse, evaluation, triage, collection,
                  application, remoteRevision >>

\* The request for the files of the candidate of worker w fails: the task,
\* the worker and mapWithConcurrency reject, and the run throws.
FetchFails(r, w) ==
  /\ triage.pc = "detecting"
  /\ runs[r].phase = "evaluating"
  /\ w \in DOMAIN runs[r].workers
  /\ runs[r].workers[w].pc = "fetching"
  /\ runs' = [ runs EXCEPT ![r].phase = "failed" ]
  /\ cacheEvent' = NoCacheEvent
  /\ UNCHANGED << representationCache, clock, lastUse, evaluation, triage, collection,
                  application, remoteRevision >>

\* The run after detectDuplicatePullRequest returned `result`, up to the
\* return of runDuplicateCheckForPullRequest: the duplicate comment is
\* upserted when the result is flagged, deleted when it is checked only.
CheckedWith(run, result, place) ==
  IF result.flagged
    THEN [ run EXCEPT !.pc = "commits",
                      !.duplicateDetection = << result >>,
                      !.comments = UpsertedAt(@, place, DUPLICATE_COMMENT_MARKER, run.nextId),
                      !.nextId = IF place = 0 THEN @ + 1 ELSE @,
                      !.checkCalls = @ \o UpsertCalls(place) ]
  ELSE IF result.checked
    THEN [ run EXCEPT !.pc = "commits",
                      !.duplicateDetection = << result >>,
                      !.comments = DeletedAt(@, place),
                      !.checkCalls = @ \o DeleteCalls(place) ]
  ELSE [ run EXCEPT !.pc = "commits", !.duplicateDetection = << result >> ]

\* detectDuplicatePullRequest has returned.
DetectReturn ==
  /\ triage.pc = "detecting"
  /\ runs["a"].phase = "done"
  /\ triage' = CheckedWith(triage, runs["a"].result[1],
                           findExistingManagedComment(triage.comments,
                                                      DUPLICATE_COMMENT_MARKER))
  /\ cacheEvent' = NoCacheEvent
  /\ UNCHANGED << representationCache, clock, lastUse, runs, evaluation, collection,
                  application, remoteRevision >>

\* A run of the triage that lets the failure of the check through.
ThrownFurther(run) == [ run EXCEPT !.pc = "idle" ]

\* catch (error) { duplicateDetection = buildSkippedDuplicateDetection('error') }
CaughtFailure(run) ==
  [ run EXCEPT !.pc = "commits",
               !.duplicateDetection = << buildSkippedDuplicateDetection("error") >> ]

\* detectDuplicatePullRequest has thrown: runDuplicateCheckForPullRequest
\* throws, and runTriageForPullRequest catches.
DetectFails ==
  /\ triage.pc = "detecting"
  /\ runs["a"].phase = "failed"
  /\ triage' = CaughtFailure(triage)
  /\ cacheEvent' = NoCacheEvent
  /\ UNCHANGED << representationCache, clock, lastUse, runs, evaluation, collection,
                  application, remoteRevision >>

\* The rest of runTriageForPullRequest: the commits, the analysis, the labels
\* and the triage comment, which is upserted when the analysis flags the pull
\* request and deleted when it does not.
TriagedWith(run, hasTriageLabels, place) ==
  [ run EXCEPT
      !.pc = "idle",
      !.comments = IF hasTriageLabels THEN UpsertedAt(@, place, BOT_COMMENT_MARKER, run.nextId)
                   ELSE DeletedAt(@, place),
      !.nextId = IF hasTriageLabels /\ place = 0 THEN @ + 1 ELSE @,
      !.calls = @ \o << "pulls.listCommits", "analyzePullRequest", "syncManagedLabels" >>
                  \o (IF hasTriageLabels THEN UpsertCalls(place) ELSE DeleteCalls(place)),
      !.result = << [ skipped |-> FALSE,
                      skipReason |-> "",
                      duplicateDetection |-> run.duplicateDetection[1] ] >> ]

CommitsReturn(hasTriageLabels) ==
  /\ triage.pc = "commits"
  /\ triage' = TriagedWith(triage, hasTriageLabels,
                           findExistingManagedComment(triage.comments, BOT_COMMENT_MARKER))
  /\ cacheEvent' = NoCacheEvent
  /\ UNCHANGED << representationCache, clock, lastUse, runs, evaluation, collection,
                  application, remoteRevision >>

\* The skip reason of the duplicate detection of a run that bypasses the
\* triage.
BypassReason(reason) ==
  IF reason = "human-reviewed" THEN "triage-bypassed-human-reviewed"
  ELSE IF reason = "trusted-author" THEN "triage-bypassed-trusted-author"
  ELSE "triage-bypassed-trusted-title"

\* The run of the triage on a pull request that bypasses it (the label of
\* the human review, a trusted author or title): the labels are synchronized
\* and both comments deleted.
BypassedWith(run, reason, comments) ==
  [ run EXCEPT
      !.pc = "idle",
      !.started = @ + 1,
      !.commentsAtStart = run.comments,
      !.comments = deleteManagedComment(comments, DUPLICATE_COMMENT_MARKER),
      !.calls = << "pulls.get", "syncManagedLabels" >>
                  \o DeleteCalls(findExistingManagedComment(run.comments, BOT_COMMENT_MARKER))
                  \o DeleteCalls(findExistingManagedComment(comments,
                                                            DUPLICATE_COMMENT_MARKER)),
      !.checkCalls = <<>>,
      !.duplicateDetection = << buildSkippedDuplicateDetection(BypassReason(reason)) >>,
      !.result = << [ skipped |-> TRUE,
                      skipReason |-> reason,
                      duplicateDetection |->
                        buildSkippedDuplicateDetection(BypassReason(reason)) ] >> ]

TriageBypass(reason) ==
  /\ triage.pc = "idle"
  /\ triage.started < MaxTriageRuns
  /\ triage' = BypassedWith(triage, reason,
                            deleteManagedComment(triage.comments, BOT_COMMENT_MARKER))
  /\ runs' = [ runs EXCEPT !["a"] = IdleRun ]
  /\ cacheEvent' = NoCacheEvent
  /\ UNCHANGED << representationCache, clock, lastUse, evaluation, collection, application,
               remoteRevision >>

NextTriage ==
  \/ \E c \in DOMAIN TriageConfigInputs, eventAction \in EventActions, client \in Clients :
       TriageStart(TriageConfigInputs[c], eventAction, client)
  \/ CollectReturn("a")
  \/ CollectFails("a")
  \/ \E w \in 1..12 : TaskReturn("a", w)
  \/ \E w \in 1..12 : FetchReturn("a", w)
  \/ \E w \in 1..12 : FetchFails("a", w)
  \/ Finish("a")
  \/ DetectReturn
  \/ DetectFails
  \/ \E hasTriageLabels \in BOOLEAN : CommitsReturn(hasTriageLabels)
  \/ \E reason \in {"human-reviewed", "trusted-author", "trusted-title"} : TriageBypass(reason)

SpecTriage == InitTriage /\ [][NextTriage]_vars

\* The duplicate check of the run has returned to runTriageForPullRequest, or
\* has thrown and was caught there.
CheckDecided ==
  \/ triage.pc = "commits"
  \/ triage.pc = "idle" /\ triage.result # <<>> /\ ~triage.result[1].skipped

\* Whether the event action of the run is one the check skips when it is to
\* run on the initial submission only.
SkippedAction ==
  /\ triage.config.onlyOnOpened
  /\ triage.eventAction \notin {"", "opened", "reopened"}

\* C12: the duplicate check asks, in this order, whether the detection is
\* disabled, whether the event action is one to skip, whether the client
\* lacks the listing of pull requests, and runs the detection otherwise.  A
\* check skipped as disabled or for its client returns checked = false,
\* flagged = false, no match, no revert and its reason; it raises nothing,
\* asks the remote for no listing and no file list, and creates, updates and
\* deletes no comment.
C12_SkipOrder ==
  CheckDecided =>
    LET detection == triage.duplicateDetection[1]
    IN /\ detection.skipReason = "disabled" <=> ~triage.config.enabled
       /\ detection.skipReason = "non-opened-action" <=>
            triage.config.enabled /\ SkippedAction
       /\ detection.skipReason = "unsupported-client" <=>
            triage.config.enabled /\ ~SkippedAction /\ triage.client # "rest"
       /\ detection.skipReason \in {"", "error"} <=>
            triage.config.enabled /\ ~SkippedAction /\ triage.client = "rest"
       /\ detection.skipReason \in {"disabled", "unsupported-client"} =>
            /\ ~detection.checked
            /\ ~detection.flagged
            /\ detection.matches = <<>>
            /\ detection.reverts = <<>>
            /\ runs["a"] = IdleRun
            /\ triage.checkCalls = <<>>
            /\ triage.pc = "commits" => triage.comments = triage.commentsAtStart

\* C12, its case: a check has returned as disabled although the event action
\* is one to skip and the client lacks the listing, on a pull request that
\* carries the duplicate comment of an earlier run.
C12_Witness ==
  /\ triage.pc = "commits"
  /\ triage.duplicateDetection[1].skipReason = "disabled"
  /\ SkippedAction
  /\ triage.client # "rest"
  /\ findExistingManagedComment(triage.comments, DUPLICATE_COMMENT_MARKER) # 0

\* C13: with onlyOnOpened set, a check triggered by an event action other than
\* 'opened' is skipped: it returns checked = false with a skip reason, and
\* retrieves no candidate.
C13_OtherActionsSkipped ==
  (/\ triage.pc \in {"detecting", "commits"}
   /\ triage.config.onlyOnOpened
   /\ triage.eventAction \notin {"", "opened"}) =>
    /\ runs["a"] = IdleRun
    /\ triage.duplicateDetection # <<>>
    /\ ~triage.duplicateDetection[1].checked
    /\ triage.duplicateDetection[1].skipReason # ""

\* The names of the requests and calls of a log.
CallsOf(calls) == { calls[i] : i \in DOMAIN calls }

\* C14: a run of detectDuplicatePullRequest in which a listing or the request
\* for a candidate's files fails returns nothing, whatever its tasks had
\* evaluated; runTriageForPullRequest catches the failure, records the
\* detection as checked = false with the skip reason 'error' and no match,
\* then fetches the commits, analyses the pull request, synchronizes the
\* labels and returns a result with skipped = false.
C14_DetectionFailureIsCaught ==
  runs["a"].phase = "failed" =>
    /\ runs["a"].result = <<>>
    /\ triage.pc \in {"detecting", "commits", "idle"}
    /\ triage.pc \in {"commits", "idle"} =>
         /\ triage.duplicateDetection = << buildSkippedDuplicateDetection("error") >>
         /\ ~triage.duplicateDetection[1].checked
         /\ triage.duplicateDetection[1].matches = <<>>
         /\ triage.checkCalls = <<>>
    /\ triage.pc = "idle" =>
         /\ triage.result # <<>>
         /\ ~triage.result[1].skipped
         /\ triage.result[1].duplicateDetection = buildSkippedDuplicateDetection("error")
         /\ {"pulls.listCommits", "analyzePullRequest", "syncManagedLabels"}
              \subseteq CallsOf(triage.calls)

\* C14, its case: the triage has returned after a request for a candidate's
\* files failed in a run that had fetched the files of another candidate and
\* stored a duplicate of the pull request.
C14_Witness ==
  /\ triage.pc = "idle"
  /\ triage.result # <<>>
  /\ runs["a"].phase = "failed"
  /\ runs["a"].fetched # {}
  /\ \E i \in DOMAIN runs["a"].results :
       /\ runs["a"].results[i].set
       /\ runs["a"].results[i].value # <<>>
       /\ runs["a"].results[i].value[1].similarity.isDuplicate

\* The places of the comments that hold the duplicate marker.
MarkerComments(comments) ==
  { i \in DOMAIN comments : DUPLICATE_COMMENT_MARKER \in comments[i].markers }

IdsOf(comments) == { comments[i].id : i \in DOMAIN comments }

\* A step in which the duplicate check returns a flagged result: the marker
\* comment there was is updated, and one is created only when there was none.
FlaggedStepUpserts ==
  (/\ triage.pc = "detecting"
   /\ triage'.pc = "commits"
   /\ triage'.duplicateDetection[1].flagged) =>
    IF MarkerComments(triage.comments) # {}
      THEN /\ IdsOf(triage'.comments) = IdsOf(triage.comments)
           /\ MarkerComments(triage'.comments) = MarkerComments(triage.comments)
           /\ triage'.checkCalls = << "issues.listComments", "issues.updateComment" >>
      ELSE /\ Len(triage'.comments) = Len(triage.comments) + 1
           /\ Cardinality(MarkerComments(triage'.comments)) = 1
           /\ triage'.checkCalls = << "issues.listComments", "issues.createComment" >>

\* C17: through any sequence of runs, one after the other, the pull request
\* carries at most one comment with the duplicate marker; a check that flags
\* a duplicate updates the marker comment when there is one and creates one
\* only when there is none; after a check that ran the detection and flagged
\* nothing, the pull request carries no marker comment.
C17_AtMostOneMarkerComment ==
  [](/\ Cardinality(MarkerComments(triage.comments)) <= 1
     /\ (/\ CheckDecided
         /\ triage.duplicateDetection[1].checked
         /\ ~triage.duplicateDetection[1].flagged) =>
          MarkerComments(triage.comments) = {})
  /\ [][FlaggedStepUpserts]_vars

\* C17, its case: a third run has flagged a duplicate and updated the marker
\* comment of the first, which a second run, skipped, had left, on a pull
\* request that carries a triage comment and a comment of neither marker.
C17_Witness ==
  /\ triage.pc = "commits"
  /\ triage.started = 3
  /\ triage.duplicateDetection[1].flagged
  /\ triage.checkCalls = << "issues.listComments", "issues.updateComment" >>
  /\ Cardinality(MarkerComments(triage.comments)) = 1
  /\ \E i \in DOMAIN triage.comments : BOT_COMMENT_MARKER \in triage.comments[i].markers
  /\ Len(triage.comments) = 3

(***************************************************************************)
(* The normalization of a configuration: normalizeDuplicateConfig applied  *)
(* to an input, and applied again to what it returned.                     *)
(***************************************************************************)

SettingNames == DOMAIN DEFAULT_DUPLICATE_CONFIG

BooleanSettings == {"enabled", "onlyOnOpened"}

\* The range of each numeric setting, thresholds in thousandths.
SettingRange(name) ==
  CASE name = "maxOpenCandidates" -> << 1, 400 >>
    [] name = "maxMergedCandidates" -> << 1, 600 >>
    [] name = "maxCandidateComparisons" -> << 1, 200 >>
    [] name = "mergedLookbackDays" -> << 1, 1000 >>
    [] name = "fileCountDeltaThreshold" -> << 0, 100 >>
    [] name = "candidateFetchConcurrency" -> << 1, 12 >>
    [] name = "maxPatchCharactersPerFile" -> << 200, 100000 >>
    [] name = "metadataVectorSize" -> << 32, 2048 >>
    [] name = "maxReportedMatches" -> << 1, 10 >>
    [] OTHER -> << 0, ONE >>

\* The values given for a setting: a text that is no number, the booleans,
\* and numbers below, at, within and above the range of the setting.
SettingValues(name) ==
  {TextValue, BooleanValue(TRUE), BooleanValue(FALSE)}
    \cup { NumberValue(n) :
             n \in {-1, 0, 1, 2,
                    SettingRange(name)[1] - 1, SettingRange(name)[1],
                    SettingRange(name)[2], SettingRange(name)[2] + 1} }

\* The inputs in which every setting is given alike: none given, all texts,
\* all negative, all zero, all oversized.
UniformInputs ==
  { [ name \in {} |-> TextValue ],
    [ name \in SettingNames |-> TextValue ],
    [ name \in SettingNames |-> NumberValue(-5) ],
    [ name \in SettingNames |-> NumberValue(0) ],
    [ name \in SettingNames |-> NumberValue(200001) ] }

\* { ...base, [name]: value }
WithSetting(base, name, value) ==
  [ n \in DOMAIN base \cup {name} |-> IF n = name THEN value ELSE base[n] ]

ConfigApplied(inputConfig) ==
  [ pc |-> "input", inputConfig |-> inputConfig, result |-> <<>>, again |-> <<>> ]

InitConfig ==
  /\ representationCache = <<>>
  /\ cacheEvent = NoCacheEvent
  /\ clock = 0
  /\ lastUse = <<>>
  /\ remoteRevision = NoPush
  /\ runs = [ r \in RunIds |-> IdleRun ]
  /\ evaluation = NoEvaluation
  /\ triage = NoTriage
  /\ collection = NoCollection
  /\ \E base \in UniformInputs, name \in SettingNames :
       \E value \in SettingValues(name) :
         application \in {ConfigApplied(base), ConfigApplied(WithSetting(base, name, value))}

\* normalizeDuplicateConfig(inputConfig)
Normalize ==
  /\ application.pc = "input"
  /\ application' =
       [ application EXCEPT
           !.pc = "normalized",
           !.result = << normalizeDuplicateConfig(application.inputConfig) >> ]
  /\ UNCHANGED << representationCache, cacheEvent, clock, lastUse, runs, evaluation, triage,
               collection, remoteRevision >>

\* normalizeDuplicateConfig of the configuration it returned, as
\* detectDuplicatePullRequest does with the configuration of the triage.
NormalizeAgain ==
  /\ application.pc = "normalized"
  /\ application' =
       [ application EXCEPT
           !.pc = "renormalized",
           !.again =
             << normalizeDuplicateConfig(AsInputConfig(application.result[1])) >> ]
  /\ UNCHANGED << representationCache, cacheEvent, clock, lastUse, runs, evaluation, triage,
               collection, remoteRevision >>

NextConfig ==
  \/ Normalize
  \/ NormalizeAgain

SpecConfig == InitConfig /\ [][NextConfig]_vars

\* Whether a setting is given and its value parses neither as a number, for
\* a numeric setting, nor as a boolean, for a boolean one.
Unparsable(inputConfig, name) ==
  /\ name \in DOMAIN inputConfig
  /\ IF name \in BooleanSettings
       THEN \/ inputConfig[name].kind = "text"
            \/ inputConfig[name].kind = "number" /\ inputConfig[name].number \notin {0, 1}
       ELSE inputConfig[name].kind # "number"

InRange(config) ==
  /\ DOMAIN config = SettingNames
  /\ \A name \in BooleanSettings : config[name] \in BOOLEAN
  /\ \A name \in SettingNames \ BooleanSettings :
       /\ config[name] \in Int
       /\ config[name] >= SettingRange(name)[1]
       /\ config[name] <= SettingRange(name)[2]

\* C15: whatever is given for the settings (nothing, a text that is no
\* number, a negative, zero or oversized number), normalizeDuplicateConfig
\* returns a configuration with every setting in its range
\* (maxOpenCandidates 1..400, maxMergedCandidates 1..600,
\* maxCandidateComparisons 1..200, mergedLookbackDays 1..1000,
\* fileCountDeltaThreshold 0..100, the four thresholds 0..1,
\* candidateFetchConcurrency 1..12, maxPatchCharactersPerFile 200..100000,
\* metadataVectorSize 32..2048, maxReportedMatches 1..10); a setting that is
\* missing or does not parse has its default; and the normalization of a
\* normalized configuration returns it unchanged.
C15_NormalizedConfigInRange ==
  /\ application.pc \in {"normalized", "renormalized"} =>
       /\ InRange(application.result[1])
       /\ \A name \in SettingNames :
            (name \notin DOMAIN application.inputConfig
               \/ Unparsable(application.inputConfig, name)) =>
              application.result[1][name] = DEFAULT_DUPLICATE_CONFIG[name]
  /\ application.pc = "renormalized" => application.again = application.result

\* C15, its case: a configuration given oversized numbers for every setting
\* but the concurrency, given as a text, has been normalized, to the upper
\* end of every range and the default concurrency, and normalized again.
C15_Witness ==
  /\ application.pc = "renormalized"
  /\ DOMAIN application.inputConfig = SettingNames
  /\ application.inputConfig.candidateFetchConcurrency = TextValue
  /\ application.inputConfig.maxOpenCandidates = NumberValue(200001)
  /\ application.result[1].maxOpenCandidates = 400
  /\ application.result[1].fileOverlapThreshold = ONE
  /\ application.result[1].candidateFetchConcurrency = 4

(***************************************************************************)
(* Variants of one change: the same change with its files in another       *)
(* order, its lines in another order, other white space, another removed   *)
(* line, another file, and with a long line of blanks in the patch.        *)
(*   1  the change: adds "ab cd" and "ef", removes "gh" in a, adds "kl"    *)
(*      in b                                                               *)
(*   2  the files in the other order                                       *)
(*   3  the lines of a in another order                                    *)
(*   4  other runs of blanks, blanks before and after the lines            *)
(*   5  "abcd" for "ab cd"                                                 *)
(*   6  removes "ij" for "gh"                                              *)
(*   7  c for b                                                            *)
(*   8  a line of 195 blanks added in a, before "ef"                       *)
(*   9  the lines of 8 with "ab cd" and "ef" exchanged                     *)
(***************************************************************************)

PatchOfLines(lines) == Join(lines, <<"\n">>)

VariantFiles ==
  LET abcd == <<"+", "a", "b", " ", "c", "d">>
      ef == <<"+", "e", "f">>
      gh == <<"-", "g", "h">>
      kl == <<"+", "k", "l">>
      blanks == <<"+">> \o [ i \in 1..195 |-> " " ]
      a(lines) == [ filename |-> <<"a">>, patch |-> PatchOfLines(lines) ]
      b == [ filename |-> <<"b">>, patch |-> kl ]
  IN << << a(<<abcd, ef, gh>>), b >>,
        << b, a(<<abcd, ef, gh>>) >>,
        << a(<<gh, ef, abcd>>), b >>,
        << a(<< <<"+", " ", " ", "a", "b", " ", "\t", " ", "c", "d", " ">>,
                <<"+", "e", "f", "\t">>,
                <<"-", " ", "g", "h", " ", " ">> >>),
           [ filename |-> <<"b">>, patch |-> <<"+", "\t", "k", "l">> ] >>,
        << a(<< <<"+", "a", "b", "c", "d">>, ef, gh >>), b >>,
        << a(<< abcd, ef, <<"-", "i", "j">> >>), b >>,
        << a(<<abcd, ef, gh>>), [ filename |-> <<"c">>, patch |-> kl ] >>,
        << a(<<abcd, gh, blanks, ef>>), b >>,
        << a(<<ef, gh, blanks, abcd>>), b >> >>

VariantPull(v) ==
  [ pr |-> [ number |-> v, title |-> <<"a", "b", " ", "c", "l">>, body |-> Null,
             base |-> "main", state |-> "open", merged_at |-> NullNumber,
             updated_at |-> 390, created_at |-> 1, changed_files |-> 2, head_sha |-> <<"s">> ],
    files |-> VariantFiles[v] ]

\* The configurations of the variants: patches cut at 200 characters, and at
\* the default.
VariantConfigInputs ==
  << [ name \in {"metadataVectorSize", "maxPatchCharactersPerFile"} |->
         IF name = "metadataVectorSize" THEN NumberValue(32) ELSE NumberValue(200) ],
     [ name \in {"metadataVectorSize"} |-> NumberValue(32) ] >>

InitVariants ==
  /\ representationCache = <<>>
  /\ cacheEvent = NoCacheEvent
  /\ clock = 0
  /\ lastUse = <<>>
  /\ remoteRevision = NoPush
  /\ runs = [ r \in RunIds |-> IdleRun ]
  /\ triage = NoTriage
  /\ collection = NoCollection
  /\ application = NoApplication
  /\ \E current \in DOMAIN VariantFiles, candidate \in DOMAIN VariantFiles,
        c \in DOMAIN VariantConfigInputs :
       evaluation = [ phase |-> "input",
                      current |-> VariantPull(current),
                      candidate |-> VariantPull(candidate),
                      config |-> normalizeDuplicateConfig(VariantConfigInputs[c]),
                      representations |-> <<>>,
                      similarity |-> <<>> ]

SpecVariants == InitVariants /\ [][NextEvaluation]_vars

IsBlank(c) == c \in {" ", "\t"}

\* The line without its white space.
WithoutWhitespace(line) == Filter(line, LAMBDA c : ~IsSpace(c))

\* The line without the blanks it begins and ends with, each run of blanks
\* inside it made one space.
WithSingleBlanks(line) ==
  LET kept == Filter([ i \in DOMAIN line |->
                         IF ~IsBlank(line[i]) THEN line[i]
                         ELSE IF i = 1 \/ IsBlank(line[i - 1])
                                 \/ \A j \in i..Len(line) : IsBlank(line[j])
                           THEN "" ELSE " " ],
                     LAMBDA c : c # "")
  IN kept

\* The lines of the patches of the files that begin with the sign and are no
\* file header, without the sign and as form(line) has them, sorted; the
\* patches cut at cut characters.
SignedLines(files, sign, cut, form(_)) ==
  LET linesOf(file) ==
        SplitLines(SliceTo(IF file.patch # Null THEN file.patch ELSE <<>>, cut))
      isSigned(line) ==
        /\ StartsWith(line, <<sign>>)
        /\ ~StartsWith(line, <<sign, sign, sign>>)
      formOf(line) == form(Drop(line, 1))
      signedOf(file) == MapSeq(Filter(linesOf(file), isSigned), formOf)
  IN SortStrings(Filter(Flatten(MapSeq(files, signedOf)), IsNonEmpty))

FilenamesOf(files) == { files[i].filename : i \in DOMAIN files }

\* The length of the longest patch of the files.
LongestPatch(files) ==
  LET lengths == { IF files[i].patch # Null THEN Len(files[i].patch) ELSE 0 : i \in DOMAIN files }
  IN CHOOSE n \in lengths : \A k \in lengths : k <= n

\* What C16 concludes of an evaluation.
DuplicateByNormalizedDiff ==
  /\ evaluation.similarity[1].metrics.fileOverlap = ONE
  /\ evaluation.similarity[1].metrics.normalizedDiffHashMatch
  /\ evaluation.similarity[1].isDuplicate

\* C16, as claimed: a candidate that touches the files of the current pull
\* request and whose added lines are those of the current pull request but
\* for white space has fileOverlap 1, normalizedDiffHashMatch true and
\* isDuplicate true.
C16_SameAddedLinesButWhitespace ==
  (/\ Evaluated
   /\ FilenamesOf(evaluation.current.files) = FilenamesOf(evaluation.candidate.files)
   /\ SignedLines(evaluation.current.files, "+",
                LongestPatch(evaluation.current.files), WithoutWhitespace)
        = SignedLines(evaluation.candidate.files, "+",
                  LongestPatch(evaluation.candidate.files), WithoutWhitespace)) =>
    DuplicateByNormalizedDiff

\* Whether the lines of the sign that the two pull requests have within the
\* cut of their patches are the same but for the blanks they begin and end
\* with and for the lengths of the runs of blanks inside them.
SameButBlankRuns(sign) ==
  SignedLines(evaluation.current.files, sign, evaluation.config.maxPatchCharactersPerFile,
              WithSingleBlanks)
    = SignedLines(evaluation.candidate.files, sign,
                  evaluation.config.maxPatchCharactersPerFile, WithSingleBlanks)

\* C16, amended: a candidate that touches the files of the current pull
\* request and whose added lines and removed lines, within the first
\* maxPatchCharactersPerFile characters of each patch, are those of the
\* current pull request but for the spaces and tabs they begin and end with
\* and for the lengths of the runs of spaces and tabs inside them has
\* fileOverlap 1, normalizedDiffHashMatch true and isDuplicate true.
C16_SameLinesButBlankRuns ==
  (/\ Evaluated
   /\ FilenamesOf(evaluation.current.files) = FilenamesOf(evaluation.candidate.files)
   /\ SameButBlankRuns("+")
   /\ SameButBlankRuns("-")) =>
    DuplicateByNormalizedDiff

\* C16, its case: the change has been evaluated against the variant with
\* other runs of blanks, whose patches are other texts.
C16_Witness ==
  /\ Evaluated
  /\ evaluation.current.files = VariantFiles[1]
  /\ evaluation.candidate.files = VariantFiles[4]
  /\ SameButBlankRuns("+")
  /\ SameButBlankRuns("-")
  /\ SignedLines(evaluation.current.files, "+",
                LongestPatch(evaluation.current.files), LAMBDA line : line)
       # SignedLines(evaluation.candidate.files, "+",
                  LongestPatch(evaluation.candidate.files), LAMBDA line : line)
  /\ DuplicateByNormalizedDiff

\* Whether the files of the candidate are those of the current pull request
\* in some order, the lines of each patch in some order.
IsReordering ==
  LET linesOf(file) ==
        SortStrings(SplitLines(IF file.patch # Null THEN file.patch ELSE <<>>))
      asSet(files) == { << files[i].filename, linesOf(files[i]) >> : i \in DOMAIN files }
  IN /\ Len(evaluation.current.files) = Len(evaluation.candidate.files)
     /\ asSet(evaluation.current.files) = asSet(evaluation.candidate.files)
     /\ evaluation.current.pr.title = evaluation.candidate.pr.title
     /\ evaluation.current.pr.body = evaluation.candidate.pr.body

\* What C20 concludes of two representations.
SameHashesAndVector ==
  \A field \in {"filePathHash", "normalizedDiffHash", "patchFingerprint",
                "inversePatchFingerprint", "metadataTokenVector"} :
    evaluation.representations[1][field] = evaluation.representations[2][field]

\* C20, as claimed: under one configuration and with the same title and body,
\* the files in any order and the lines of each patch in any order give the
\* same filePathHash, normalizedDiffHash, patchFingerprint,
\* inversePatchFingerprint and the same embedding vector.
C20_OrderIndependent ==
  (evaluation.phase \in {"built", "evaluated"} /\ IsReordering) => SameHashesAndVector

\* C20, amended: the same, of files whose patches are no longer than
\* maxPatchCharactersPerFile.
C20_OrderIndependentWithinCut ==
  (/\ evaluation.phase \in {"built", "evaluated"}
   /\ IsReordering
   /\ LongestPatch(evaluation.current.files) <= evaluation.config.maxPatchCharactersPerFile) =>
    SameHashesAndVector

\* C20, its case: the representations of the variant with the files in the
\* other order and of the variant with the lines in another order have been
\* built.
C20_Witness ==
  /\ evaluation.phase = "built"
  /\ evaluation.current.files = VariantFiles[2]
  /\ evaluation.candidate.files = VariantFiles[3]
  /\ IsReordering
  /\ LongestPatch(evaluation.current.files) <= evaluation.config.maxPatchCharactersPerFile
  /\ evaluation.current.files[1].patch # evaluation.candidate.files[1].patch
  /\ SameHashesAndVector

(***************************************************************************)
(* Pull requests of few files, of which some declare a function, a class   *)
(* or an import, and one of no file: the sets the overlaps are taken of.   *)
(***************************************************************************)

OverlapFiles ==
  LET def == [ filename |-> <<"a", "/", "x">>,
               patch |-> <<"+", "d", "e", "f", " ", "a", "b", "(">> ]
      class == [ filename |-> <<"a", "/", "y">>,
                 patch |-> <<"+", "c", "l", "a", "s", "s", " ", "c", "d">> ]
      using == [ filename |-> <<"b">>, patch |-> <<"+", "u", "s", "i", "n", "g", " ", "e", "f">> ]
      none == [ filename |-> <<"c">>, patch |-> Null ]
      all == [ filename |-> <<"a", "/", "z">>,
               patch |-> PatchOfLines(<< <<"+", "d", "e", "f", " ", "g", "h", "(">>,
                                         <<"+", "c", "l", "a", "s", "s", " ", "c", "d">>,
                                         <<"+", "u", "s", "i", "n", "g", " ", "i", "j">> >>) ]
  IN << <<>>, <<none>>, <<def>>, <<class>>, <<using>>, <<def, class>>, <<def, all>>,
        <<class, using, none>>, <<all>>, <<def, class, using, all>> >>

OverlapPull(v) ==
  [ pr |-> [ number |-> v, title |-> Null, body |-> Null, base |-> "main", state |-> "open",
             merged_at |-> NullNumber, updated_at |-> 390, created_at |-> 1,
             changed_files |-> Len(OverlapFiles[v]), head_sha |-> <<"s">> ],
    files |-> OverlapFiles[v] ]

InitOverlap ==
  /\ representationCache = <<>>
  /\ cacheEvent = NoCacheEvent
  /\ clock = 0
  /\ lastUse = <<>>
  /\ remoteRevision = NoPush
  /\ runs = [ r \in RunIds |-> IdleRun ]
  /\ triage = NoTriage
  /\ collection = NoCollection
  /\ application = NoApplication
  /\ \E current \in DOMAIN OverlapFiles, candidate \in DOMAIN OverlapFiles :
       evaluation = [ phase |-> "input",
                      current |-> OverlapPull(current),
                      candidate |-> OverlapPull(candidate),
                      config |-> normalizeDuplicateConfig(VariantConfigInputs[2]),
                      representations |-> <<>>,
                      similarity |-> <<>> ]

SpecOverlap == InitOverlap /\ [][NextEvaluation]_vars

\* The overlaps of evaluateCandidateSimilarity: the metric, the sets of the
\* representations it is taken of, and its value for two empty sets.
OverlapUses ==
  { << "fileOverlap", "fileSet", ONE >>,
    << "topLevelDirOverlap", "topLevelDirectories", ONE >>,
    << "functionOverlap", "changedFunctions", 0 >>,
    << "classOverlap", "changedClasses", 0 >>,
    << "importOverlap", "importsAdded", 0 >> }

\* C19: each overlap of an evaluation is the size of the intersection of the
\* two sets over the size of their union, a value from 0 to 1, the same with
\* the two sets exchanged; of two empty sets it is 1 for fileOverlap and
\* topLevelDirOverlap and 0 for functionOverlap, classOverlap and
\* importOverlap.
C19_JaccardOfSets ==
  Evaluated =>
    \A use \in OverlapUses :
      LET value == evaluation.similarity[1].metrics[use[1]]
          setA == evaluation.representations[1][use[2]]
          setB == evaluation.representations[2][use[2]]
      IN /\ value \in 0..ONE
         /\ setA \cup setB # {} =>
              value = (Cardinality(setA \cap setB) * ONE) \div Cardinality(setA \cup setB)
         /\ setA \cup setB = {} => value = use[3]
         /\ value = jaccardSimilarity(setB, setA, use[3])

\* C19, its case: a pull request of no file has been evaluated against
\* another of no file.
C19_Witness ==
  /\ Evaluated
  /\ evaluation.representations[1].fileSet = {}
  /\ evaluation.representations[2].fileSet = {}
  /\ evaluation.representations[1].changedFunctions = {}
  /\ evaluation.representations[2].importsAdded = {}
  /\ evaluation.similarity[1].metrics.fileOverlap = ONE
  /\ evaluation.similarity[1].metrics.topLevelDirOverlap = ONE
  /\ evaluation.similarity[1].metrics.functionOverlap = 0
  /\ evaluation.similarity[1].metrics.classOverlap = 0
  /\ evaluation.similarity[1].metrics.importOverlap = 0

(***************************************************************************)
(* collectPullRequests, step by step, against a remote that answers each   *)
(* listing with a page of its choice: empty, short, full or longer than    *)
(* asked for, of pull requests merged, unmerged or both.                   *)
(***************************************************************************)

\* The limits collectPullRequests is called with.
CollectLimits == {1, 100, 101, 150}

\* The lengths of the pages the remote answers with.
PageLengths == {0, 99, PER_PAGE, PER_PAGE + 1}

PageKinds == {"merged", "unmerged", "mixed"}

\* response.data: a page of the length and kind, the answer to the request
\* for the page of that number.
PageOfKind(page, length, kind) ==
  [ i \in 1..length |->
      [ number |-> (page - 1) * (PER_PAGE + 1) + i,
        merged_at |-> IF kind = "merged" \/ (kind = "mixed" /\ i % 2 = 0)
                        THEN Now - 1 ELSE NullNumber ] ]

InitCollect ==
  /\ representationCache = <<>>
  /\ cacheEvent = NoCacheEvent
  /\ clock = 0
  /\ lastUse = <<>>
  /\ remoteRevision = NoPush
  /\ runs = [ r \in RunIds |-> IdleRun ]
  /\ evaluation = NoEvaluation
  /\ triage = NoTriage
  /\ application = NoApplication
  /\ collection = [ pc |-> "idle", state |-> "", limit |-> 0, page |-> 0, results |-> <<>>,
                    calls |-> <<>>, pages |-> <<>> ]

\* The test of the for loop with the page and the results it is reached
\* with: the next request for a listing, or the return of the results.
LoopTest(collecting, page, results) ==
  IF page <= MaxPages(collecting.limit) /\ Len(results) < collecting.limit
    THEN [ collecting EXCEPT !.pc = "listing", !.page = page, !.results = results,
                             !.calls = Append(@, "pulls.list") ]
    ELSE [ collecting EXCEPT !.pc = "returned", !.page = page, !.results = results ]

\* collectPullRequests({ state, limit, mergedLookbackDays }), to its first
\* await.
CollectCall(state, limit) ==
  /\ collection.pc = "idle"
  /\ collection' = LoopTest([ collection EXCEPT !.state = state, !.limit = limit ], 1, <<>>)
  /\ UNCHANGED << representationCache, cacheEvent, clock, lastUse, runs, evaluation, triage,
               application, remoteRevision >>

\* The body of the loop after the await, with the page the remote answered.
AfterListing(collecting, pullRequests, pushed) ==
  IF Len(pullRequests) = 0 THEN [ collecting EXCEPT !.pc = "returned" ]
  ELSE IF Len(pullRequests) < PER_PAGE
    THEN [ collecting EXCEPT !.pc = "returned", !.results = pushed ]
  ELSE LoopTest(collecting, collecting.page + 1, pushed)

\* The remote answers the listing: the rest of the pass of the loop, and the
\* loop to its next await or to the return.
ListReturn(length, kind) ==
  /\ collection.pc = "listing"
  /\ collection' =
       AfterListing([ collection EXCEPT !.pages = Append(@, length) ],
                    PageOfKind(collection.page, length, kind),
                    PushAccepted(collection.results,
                                 PageOfKind(collection.page, length, kind),
                                 collection.state, collection.limit,
                                 DEFAULT_DUPLICATE_CONFIG.mergedLookbackDays))
  /\ UNCHANGED << representationCache, cacheEvent, clock, lastUse, runs, evaluation, triage,
               application, remoteRevision >>

NextCollect ==
  \/ \E state \in {"open", "closed"}, limit \in CollectLimits : CollectCall(state, limit)
  \/ \E length \in PageLengths, kind \in PageKinds : ListReturn(length, kind)

SpecCollect == InitCollect /\ [][NextCollect]_vars

\* What C18 says of every state of a call.
CollectBounded ==
  collection.pc \in {"listing", "returned"} =>
    /\ Len(collection.calls) <=
         (IF CeilDiv(collection.limit, 100) + 2 > 1 THEN CeilDiv(collection.limit, 100) + 2
          ELSE 1)
    /\ \A i \in DOMAIN collection.calls : collection.calls[i] = "pulls.list"
    /\ Len(collection.calls) =
         Len(collection.pages) + (IF collection.pc = "listing" THEN 1 ELSE 0)
    /\ \A i \in 1..(Len(collection.calls) - 1) : collection.pages[i] >= 100
    /\ Len(collection.results) <= collection.limit
    /\ collection.pc = "listing" => Len(collection.results) < collection.limit

\* A step of a call that awaits a listing returns, or sends the one request
\* more that counts against the cap.
CollectAdvances ==
  collection.pc = "listing" =>
    \/ collection'.pc = "returned" /\ collection'.calls = collection.calls
    \/ /\ collection'.pc = "listing"
       /\ Len(collection'.calls) = Len(collection.calls) + 1
       /\ collection'.page = collection.page + 1

\* C18: collectPullRequests returns whatever pages the remote answers with,
\* full pages without end among them: every answer makes it return or list
\* the next page, and it lists at most
\* max(1, ceil(limit / 100) + 2) times, never after a page that was empty or
\* shorter than 100, never once it holds limit results; it returns at most
\* limit results, and calls nothing of the remote but the listing.
C18_CollectTerminates ==
  []CollectBounded /\ [][CollectAdvances]_vars

\* C18, its case: a call with limit 1 has returned nothing after three full
\* pages of pull requests never merged, the cap of its pages.
C18_Witness ==
  /\ collection.pc = "returned"
  /\ collection.state = "closed"
  /\ collection.limit = 1
  /\ collection.pages = << PER_PAGE, PER_PAGE, PER_PAGE >>
  /\ collection.results = <<>>

(***************************************************************************)
(* The candidate pool: one run at a time, one worker, under configurations *)
(* that move the cap of the pool, the number of open candidates asked for  *)
(* and the lookback window.                                                *)
(***************************************************************************)

PoolConfigInputs ==
  { [ name \in {"maxCandidateComparisons", "mergedLookbackDays", "maxOpenCandidates",
                "candidateFetchConcurrency"} |->
        NumberValue(CASE name = "maxCandidateComparisons" -> cap
                      [] name = "mergedLookbackDays" -> days
                      [] name = "maxOpenCandidates" -> open
                      [] OTHER -> 1) ] :
      cap \in {1, 2, 3, 4, 60}, days \in {180, 300}, open \in {2, 80} }

\* The pull requests the runs of the pool are called for.
PoolCurrents == {1, 3, 4}

NextPool ==
  \/ \E number \in PoolCurrents, inputConfig \in PoolConfigInputs :
       StartRun("a", number, inputConfig)
  \/ CollectReturn("a")
  \/ \E w \in 1..12 : TaskReturn("a", w)
  \/ \E w \in 1..12 : FetchReturn("a", w)
  \/ Finish("a")

SpecPool == Init /\ [][NextPool]_vars

\* Whether the sort of the pool takes the candidate as open.
IsOpenCandidate(candidate) == candidate.merged_at = NullNumber /\ candidate.state = "open"

\* The candidates of the state that collectPullRequests returns to the run
\* and that are neither the current pull request nor on another base.
EligibleOf(run, state) ==
  LET collected == collectPullRequests(RemotePulls, state,
                     IF state = "open" THEN run.config.maxOpenCandidates
                     ELSE run.config.maxMergedCandidates,
                     run.config.mergedLookbackDays)
  IN { collected[i] : i \in { j \in DOMAIN collected : collected[j].number \notin OffBase(run) } }

\* C21: the candidate pool of a run holds each number once and at most
\* maxCandidateComparisons candidates, the open ones first and, among the open
\* and among the merged, the most recently updated first; so a merged
\* candidate is in the pool only if every eligible open candidate is, and no
\* candidate left out was updated after one of its group that is in the pool.
C21_PoolOrderedAndCapped ==
  \A r \in Mapping :
    LET run == runs[r]
        pool == run.candidatePool
        kept == { pool[i] : i \in DOMAIN pool }
        eligible == EligibleOf(run, "open") \cup EligibleOf(run, "closed")
    IN /\ \A i, j \in DOMAIN pool : pool[i].number = pool[j].number => i = j
       /\ Len(pool) <= run.config.maxCandidateComparisons
       /\ \A i, j \in DOMAIN pool :
            i < j =>
              /\ IsOpenCandidate(pool[j]) => IsOpenCandidate(pool[i])
              /\ IsOpenCandidate(pool[i]) = IsOpenCandidate(pool[j]) =>
                   pool[i].updated_at >= pool[j].updated_at
       /\ kept \subseteq eligible
       /\ Cardinality(eligible) <= run.config.maxCandidateComparisons => kept = eligible
       /\ (\E candidate \in kept : ~IsOpenCandidate(candidate)) =>
            EligibleOf(run, "open") \subseteq kept
       /\ \A dropped \in eligible \ kept, candidate \in kept :
            IsOpenCandidate(dropped) = IsOpenCandidate(candidate) =>
              dropped.updated_at <= candidate.updated_at

\* C21, its case: the cap has cut the pool of a run to two open candidates,
\* leaving out open candidates updated before them and a merged candidate
\* updated after one of the two.
C21_Witness ==
  \E r \in Mapping :
    LET run == runs[r]
        pool == run.candidatePool
        kept == { pool[i] : i \in DOMAIN pool }
    IN /\ Len(pool) = run.config.maxCandidateComparisons
       /\ \A candidate \in kept : IsOpenCandidate(candidate)
       /\ EligibleOf(run, "open") \ kept # {}
       /\ \E dropped \in EligibleOf(run, "closed"), candidate \in kept :
            dropped.updated_at > candidate.updated_at

(***************************************************************************)
(* The early return of the task: two runs at once over the one cache, for  *)
(* a current pull request of one file and one of three, under a threshold  *)
(* of one file, so that what the one run has cached the other skips.       *)
(***************************************************************************)

SkipConfigInputs ==
  { [ ConfigInputs[1] EXCEPT !["candidateFetchConcurrency"] = NumberValue(concurrency) ] :
      concurrency \in {1, 2} }

\* The pull requests the runs are called for.
SkipCurrents == {1, 8}

NextSkip ==
  \/ \E r \in RunIds, number \in SkipCurrents, inputConfig \in SkipConfigInputs :
       StartRun(r, number, inputConfig)
  \/ \E r \in RunIds : CollectReturn(r)
  \/ \E r \in RunIds, w \in 1..12 : TaskReturn(r, w)
  \/ \E r \in RunIds, w \in 1..12 : FetchReturn(r, w)
  \/ \E r \in RunIds : Finish(r)

SpecSkip == Init /\ [][NextSkip]_vars

\* The places of the pool of a run whose candidate reports a number of
\* changed files further from the number of files of the current pull request
\* than fileCountDeltaThreshold.
ReportedTooFar(run) ==
  { i \in DOMAIN run.candidatePool :
      LET reported == run.candidatePool[i].changed_files
      IN /\ reported # NullNumber
         /\ \/ reported - run.currentRepresentation[1].fileCount
                 > run.config.fileCountDeltaThreshold
            \/ run.currentRepresentation[1].fileCount - reported
                 > run.config.fileCountDeltaThreshold }

\* The keys held before a key in the cache.
KeysBefore(cache, key) ==
  { cache[i].key : i \in { i \in DOMAIN cache : \E j \in DOMAIN cache :
                                                  i < j /\ cache[j].key = key } }

\* In every state, of a candidate that reports too far a number of files:
\* its files are neither fetched nor awaited, the value stored for it is
\* null, and it is in no match and no revert of the result, whose
\* comparedCount does not count it.
SkippedNotCompared ==
  \A r \in Mapping :
    LET run == runs[r]
        skipped == ReportedTooFar(run)
    IN /\ \A i \in skipped :
            /\ run.candidatePool[i].number \notin run.fetched
            /\ \A w \in DOMAIN run.workers :
                 run.workers[w].index = i - 1 => run.workers[w].pc \in {"resolved", "exited"}
            /\ run.results[i].set => run.results[i].value = <<>>
            /\ r \in Returned =>
                 run.candidatePool[i].number
                   \notin NumbersOf(run.result[1].matches) \cup NumbersOf(run.result[1].reverts)
       /\ r \in Returned =>
            run.result[1].comparedCount <= Len(run.candidatePool) - Cardinality(skipped)

\* A step in which workers of a run start tasks: the key of a started
\* candidate that reports too far is in the cache after the step exactly if
\* it was before, behind no key it was not behind; and when every started
\* candidate reports too far, the cache is as it was, order included.
SkippedLeavesCache ==
  \A r \in RunIds :
    LET run == runs[r]
        started == { i \in DOMAIN runs'[r].candidatePool :
                       /\ \E t \in DOMAIN runs'[r].taken : runs'[r].taken[t] = i - 1
                       /\ ~\E t \in DOMAIN run.taken : run.taken[t] = i - 1 }
        skipped == started \cap ReportedTooFar(runs'[r])
        keyAt(i) == getRepresentationCacheKey(OWNER, REPO, runs'[r].candidatePool[i],
                                              runs'[r].config)
    IN started # {} =>
         /\ \A i \in skipped :
              /\ MapHas(representationCache', keyAt(i)) = MapHas(representationCache, keyAt(i))
              /\ KeysBefore(representationCache', keyAt(i))
                   \subseteq KeysBefore(representationCache, keyAt(i))
         /\ skipped = started => representationCache' = representationCache

\* C22: a candidate of the pool whose reported number of changed files
\* differs from the number of files of the current pull request by more than
\* fileCountDeltaThreshold is dropped before anything else: its files are
\* not fetched, the cache is neither read nor written for it (its contents
\* and its order of recency stay as they are), and it is counted neither in
\* comparedCount nor among the matches or the reverts.
C22_SkippedCandidateLeavesNoTrace == []SkippedNotCompared /\ [][SkippedLeavesCache]_vars

\* A run has returned that skipped a candidate whose representation another
\* run had left in the cache, not as the entry used last.
C22_Witness ==
  \E r \in Returned :
    \E i \in ReportedTooFar(runs[r]) :
      LET key == getRepresentationCacheKey(OWNER, REPO, runs[r].candidatePool[i],
                                           runs[r].config)
      IN /\ MapHas(representationCache, key)
         /\ representationCache[Len(representationCache)].key # key
         /\ runs[r].result[1].candidateCount > runs[r].result[1].comparedCount

\* The places of the pool of a run at which a task is started in the step.
StartedInStep(r) ==
  { i \in DOMAIN runs'[r].candidatePool :
      /\ \E t \in DOMAIN runs'[r].taken : runs'[r].taken[t] = i - 1
      /\ ~\E t \in DOMAIN runs[r].taken : runs[r].taken[t] = i - 1 }

\* A step in which a task is started for a candidate that is not skipped:
\* when the cache holds the candidate's key the task has its value, computed
\* from the cached representation, without waiting for the candidate's
\* files, and the key stays in the cache; when it does not, the task waits
\* for the files and the key is not in the cache yet.
LooksUpFirst ==
  \A r \in RunIds :
    \A i \in StartedInStep(r) :
      LET run == runs'[r]
          candidate == run.candidatePool[i]
          key == getRepresentationCacheKey(OWNER, REPO, candidate, run.config)
      IN \/ SkipsEarly(candidate, run.currentRepresentation[1], run.config)
         \/ \E w \in DOMAIN run.workers :
              /\ run.workers[w].index = i - 1
              /\ IF MapHas(representationCache, key)
                   THEN /\ run.workers[w].pc = "resolved"
                        /\ run.workers[w].value =
                             TaskValue(run.currentRepresentation[1], candidate,
                                       MapGet(representationCache, key), run.config)
                        /\ run.fetched = runs[r].fetched
                        /\ MapHas(representationCache', key)
                        /\ MapGet(representationCache', key) = MapGet(representationCache, key)
                   ELSE /\ run.workers[w].pc = "fetching"
                        /\ candidate.number \notin run.fetched
                        /\ ~MapHas(representationCache', key)

\* A step in which the files of a candidate arrive: they were asked for once
\* in the run, the representation built from them is in the cache under the
\* candidate's key, as the entry used last, and the value of the task is
\* computed from that representation.
StoresBeforeEvaluating ==
  \A r \in RunIds :
    \A w \in DOMAIN runs[r].workers :
      (runs[r].workers[w].pc = "fetching" /\ runs'[r].workers[w].pc # "fetching") =>
        LET run == runs[r]
            candidate == run.candidatePool[run.workers[w].index + 1]
            key == getRepresentationCacheKey(OWNER, REPO, candidate, run.config)
        IN /\ candidate.number \notin run.fetched
           /\ runs'[r].fetched = run.fetched \cup {candidate.number}
           /\ representationCache' # <<>>
           /\ representationCache'[Len(representationCache')].key = key
           /\ MapGet(representationCache', key) =
                BuiltRepresentation(candidate,
                                    listPullRequestFiles(RemotePulls, candidate.number),
                                    run.config)
           /\ runs'[r].workers[w].pc = "resolved"
           /\ runs'[r].workers[w].value =
                TaskValue(run.currentRepresentation[1], candidate,
                          MapGet(representationCache', key), run.config)

\* A key leaves the cache only as the oldest entry of a full cache, when
\* another key is put.
LeavesOnlyEvicted ==
  \A i \in DOMAIN representationCache :
    ~MapHas(representationCache', representationCache[i].key) =>
      /\ i = 1
      /\ Len(representationCache) = REPRESENTATION_CACHE_MAX_ENTRIES
      /\ cacheEvent'.op = "put"
      /\ cacheEvent'.key # representationCache[i].key

\* C23: for a candidate that is not skipped early the task looks in the
\* cache first.  On a hit it asks for no list of files and uses the cached
\* representation.  On a miss it asks for the list of files once, builds the
\* representation and stores it under the same key before it evaluates the
\* similarity; the key then stays until it is evicted, so that a later task
\* with the same key hits.
C23_LookupThenFetchOnce ==
  [][LooksUpFirst /\ StoresBeforeEvaluating /\ LeavesOnlyEvicted]_vars

\* A run has returned a match whose candidate it never asked the files of:
\* the representation was in the cache, put there by the other run.
C23_Witness ==
  \E r \in Returned, other \in RunIds :
    \E i \in DOMAIN runs[r].result[1].matches :
      /\ other # r
      /\ runs[r].result[1].matches[i].number \notin runs[r].fetched
      /\ runs[r].result[1].matches[i].number \in runs[other].fetched

(***************************************************************************)
(* The cache key: two descriptions of a candidate, as two tasks hold them, *)
(* the representation of the first put in the cache and the second looked  *)
(* up.  Names are of the letters, digits and hyphens a remote allows, so   *)
(* that the parts of two keys may run into each other.                     *)
(***************************************************************************)

KeyOwners == { <<"a">>, <<"a", "-", "1">> }

KeyRepos == { <<"r">>, <<"1", "-", "r">>, <<"-", "1", "r">> }

KeyPullRequests ==
  { [ number |-> number, updated_at |-> updated, head_sha |-> sha ] :
      number \in {1, 12}, updated \in {NullNumber, 3, 23}, sha \in { <<>>, <<"3">> } }

KeyConfigs ==
  { [ maxPatchCharactersPerFile |-> cap, metadataVectorSize |-> size ] :
      cap \in {1000, 10000}, size \in {16, 160} }

KeyDescriptions ==
  { [ owner |-> owner, repo |-> repo, pullRequest |-> pullRequest, config |-> config ] :
      owner \in KeyOwners, repo \in KeyRepos, pullRequest \in KeyPullRequests,
      config \in KeyConfigs }

InitKey ==
  /\ representationCache = <<>>
  /\ cacheEvent = NoCacheEvent
  /\ clock = 0
  /\ lastUse = <<>>
  /\ remoteRevision = NoPush
  /\ runs = [ r \in RunIds |-> IdleRun ]
  /\ evaluation = NoEvaluation
  /\ triage = NoTriage
  /\ collection = NoCollection
  /\ \E first \in KeyDescriptions, second \in KeyDescriptions :
       application = [ pc |-> "described", first |-> first, second |-> second,
                       firstKey |-> <<>>, secondKey |-> <<>>, served |-> <<>> ]

KeyOf(description) ==
  getRepresentationCacheKey(description.owner, description.repo, description.pullRequest,
                            description.config)

\* The task of the first description misses, builds and puts its
\* representation (that of pull request 1 of the remote stands for it).
KeyPut ==
  /\ application.pc = "described"
  /\ application' = [ application EXCEPT !.pc = "put",
                                         !.firstKey = KeyOf(application.first) ]
  /\ representationCache' =
       setCachedRepresentation(representationCache, KeyOf(application.first),
                               RepresentationTable[1][1])
  /\ UNCHANGED << cacheEvent, clock, lastUse, runs, evaluation, triage, collection, remoteRevision >>

\* The task of the second description looks in the cache.
KeyGet ==
  /\ application.pc = "put"
  /\ application' =
       [ application EXCEPT
           !.pc = "got",
           !.secondKey = KeyOf(application.second),
           !.served = getCachedRepresentation(representationCache,
                                              KeyOf(application.second)).value ]
  /\ representationCache' =
       getCachedRepresentation(representationCache, KeyOf(application.second)).cache
  /\ UNCHANGED << cacheEvent, clock, lastUse, runs, evaluation, triage, collection, remoteRevision >>

NextKey ==
  \/ KeyPut
  \/ KeyGet

SpecKey == InitKey /\ [][NextKey]_vars

\* The second description is the first after a change on the remote: the
\* same pull request, with another time of update or another head revision.
ChangedOnRemote(first, second) ==
  /\ first.owner = second.owner
  /\ first.repo = second.repo
  /\ first.config = second.config
  /\ first.pullRequest.number = second.pullRequest.number
  /\ \/ first.pullRequest.updated_at # second.pullRequest.updated_at
     \/ first.pullRequest.head_sha # second.pullRequest.head_sha

\* C24: two descriptions of a candidate that differ in the owner, the
\* repository, the number, the time of the last update, the head revision,
\* the cap of a patch or the size of the vector have different cache keys; so
\* a task that holds a candidate whose time of update or head revision has
\* changed is not served the representation cached before the change.
C24_DistinctKeys ==
  application.pc = "got" =>
    /\ application.first # application.second =>
         /\ application.firstKey # application.secondKey
         /\ application.served = <<>>
    /\ application.first = application.second => application.served # <<>>
    /\ ChangedOnRemote(application.first, application.second) => application.served = <<>>

\* The lookup of a candidate whose head revision alone has changed has
\* missed, the representation of the revision before being in the cache.
C24_Witness ==
  /\ application.pc = "got"
  /\ ChangedOnRemote(application.first, application.second)
  /\ application.first.pullRequest.updated_at = application.second.pullRequest.updated_at
  /\ application.first.pullRequest.updated_at # NullNumber
  /\ representationCache # <<>>
  /\ application.served = <<>>

(***************************************************************************)
(* The remote changes under a run: a pull request is pushed to between the *)
(* listing of the candidates and the request for a candidate's files.      *)
(***************************************************************************)

\* The pushes to one pull request in a behaviour.
MaxPushes == 1

\* The pull requests that are pushed to.
PushedPulls == {2, 5}

RemoteConfigInputs ==
  { [ name \in {"maxCandidateComparisons", "candidateFetchConcurrency"} |->
        NumberValue(IF name = "maxCandidateComparisons" THEN 2 ELSE concurrency) ] :
      concurrency \in {1, 2} }

\* A push to a pull request of the remote.
Push(n) ==
  /\ remoteRevision[n] < MaxPushes
  /\ remoteRevision' = [ remoteRevision EXCEPT ![n] = @ + 1 ]
  /\ UNCHANGED << representationCache, cacheEvent, clock, lastUse, runs, evaluation, triage,
                  collection, application >>

NextRemote ==
  \/ \E inputConfig \in RemoteConfigInputs : StartRun("a", 1, inputConfig)
  \/ CollectReturn("a")
  \/ \E w \in 1..12 : TaskReturn("a", w)
  \/ \E w \in 1..12 : FetchReturn("a", w)
  \/ Finish("a")
  \/ \E n \in PushedPulls : Push(n)

SpecRemote == Init /\ [][NextRemote]_vars

\* The files the remote had for a candidate when it was as the listing
\* reported it.
FilesAsListed(candidate) ==
  LET pushes == CHOOSE k \in 0..MaxPushes :
                  PushedPull(RemotePulls[candidate.number], k).pr = candidate
  IN PushedPull(RemotePulls[candidate.number], pushes).files

\* C25: every representation the cache holds under a key is that of the
\* candidate's files at the time of update and the head revision the key
\* names, also when the remote is pushed to between the listing of the
\* candidates and the request for the files; so what a task finds in the
\* cache under the key of its candidate is the representation of the files of
\* the revision the listing reported.
C25_CachedAtListedRevision ==
  \A r \in Mapping :
    \A i \in DOMAIN runs[r].candidatePool :
      LET candidate == runs[r].candidatePool[i]
          key == getRepresentationCacheKey(OWNER, REPO, candidate, runs[r].config)
      IN MapHas(representationCache, key) =>
           MapGet(representationCache, key) =
             BuiltRepresentation(candidate, FilesAsListed(candidate), runs[r].config)

(***************************************************************************)
(* Runs of several configurations over the one cache: two that agree on    *)
(* the cap of a patch and on the size of the vector and differ in the      *)
(* number of workers, and one with another size of the vector.             *)
(***************************************************************************)

SettingsConfigInputs == SkipConfigInputs \cup {ConfigInputs[2]}

NextSettings ==
  \/ \E r \in RunIds, inputConfig \in SettingsConfigInputs : StartRun(r, 1, inputConfig)
  \/ \E r \in RunIds : CollectReturn(r)
  \/ \E r \in RunIds, w \in 1..12 : TaskReturn(r, w)
  \/ \E r \in RunIds, w \in 1..12 : FetchReturn(r, w)
  \/ \E r \in RunIds : Finish(r)

SpecSettings == Init /\ [][NextSettings]_vars

MarkerFiles ==
  LET f(name, lines) == [ filename |-> name, patch |-> PatchOfLines(lines) ]
  IN << << f(<<"a">>, << <<"+", "R">> >>) >>,
        << f(<<"a">>, << <<"-", "R">> >>) >>,
        << f(<<"a">>, << <<"+", "A">>, <<"-", "R">> >>) >>,
        << f(<<"a">>, << <<"+", "r">>, <<"-", "a">> >>) >>,
        << f(<<"a">>, << <<"+", " ", "+", "x">> >>) >>,
        << f(<<"a">>, << <<"+", "x">>, <<"-", " ", "-", "x">> >>) >>,
        << f(<<"a">>, << <<"+", "R">>, <<"-", "R">> >>) >>,
        <<>>,
        << [ filename |-> <<"c">>, patch |-> Null ] >>,
        << f(<<"d", "/", "e">>, << <<"@", "@", " ", "x">>, <<" ", "c", "t", "x">> >>) >>,
        << f(<<"a">>, << <<"+", " ", "\t">>, <<"-", "/", "/", " ", "x">> >>),
           f(<<"d", "/", "g">>, << <<"+", "+", "+", " ", "b">> >>) >> >>

MarkerPull(v) ==
  [ pr |-> [ number |-> v, title |-> Null, body |-> Null, base |-> "main", state |-> "open",
             merged_at |-> NullNumber, updated_at |-> 390, created_at |-> 1,
             changed_files |-> Len(MarkerFiles[v]), head_sha |-> <<"s">> ],
    files |-> MarkerFiles[v] ]

InitMarkers ==
  /\ representationCache = <<>>
  /\ cacheEvent = NoCacheEvent
  /\ clock = 0
  /\ lastUse = <<>>
  /\ remoteRevision = NoPush
  /\ runs = [ r \in RunIds |-> IdleRun ]
  /\ triage = NoTriage
  /\ collection = NoCollection
  /\ application = NoApplication
  /\ \E current \in DOMAIN MarkerFiles, candidate \in DOMAIN MarkerFiles :
       evaluation = [ phase |-> "input",
                      current |-> MarkerPull(current),
                      candidate |-> MarkerPull(candidate),
                      config |-> normalizeDuplicateConfig(VariantConfigInputs[2]),
                      representations |-> <<>>,
                      similarity |-> <<>> ]

SpecMarkers == InitMarkers /\ [][NextEvaluation]_vars

\* C27: the digest being injective, normalizedDiffHashMatch and patchIdMatch
\* are equal for every pair of representations; so evaluateCandidateSimilarity
\* never returns the reason 'normalized-diff-hash-match', and the pair is an
\* exact duplicate exactly if patchIdMatch is true.
C27_DiffHashMatchIsPatchIdMatch ==
  Evaluated =>
    LET similarity == evaluation.similarity[1]
    IN /\ similarity.metrics.normalizedDiffHashMatch = similarity.metrics.patchIdMatch
       /\ similarity.reason # "normalized-diff-hash-match"
       /\ ExactByMetrics(similarity.metrics, evaluation.config) = similarity.metrics.patchIdMatch
       /\ similarity.metrics.patchIdMatch =>
            similarity.isDuplicate /\ similarity.reason = "patch-id-match"

\* The one change adds the line the other removes, in the same file: the
\* files match and the two matches of the patch are false together.
C27_Witness ==
  /\ Evaluated
  /\ evaluation.current.pr.number = 1
  /\ evaluation.candidate.pr.number = 2
  /\ evaluation.similarity[1].metrics.filePathHashMatch
  /\ evaluation.similarity[1].metrics.fileOverlap >= evaluation.config.fileOverlapThreshold
  /\ ~evaluation.similarity[1].metrics.normalizedDiffHashMatch
  /\ ~evaluation.similarity[1].metrics.patchIdMatch

\* A pull request none of whose files gives buildFileFeatures an added or a
\* removed line.
HasNoChangedLine(pull, config) ==
  \A i \in DOMAIN pull.files :
    /\ buildFileFeatures(pull.files[i], config).addedLines = <<>>
    /\ buildFileFeatures(pull.files[i], config).removedLines = <<>>

\* C28: for two representations of no normalized added line and no removed
\* line, patchIdMatch and inversePatchMatch are true, so that the pair is a
\* duplicate with reason 'patch-id-match' and confidence 1, and a revert,
\* whatever the files of the two and their overlap: the test of a fingerprint
\* that is not empty rejects no pair.
C28_EmptyChangesMatch ==
  Evaluated =>
    LET similarity == evaluation.similarity[1]
    IN /\ (HasNoChangedLine(evaluation.current, evaluation.config)
             /\ HasNoChangedLine(evaluation.candidate, evaluation.config)) =>
            /\ similarity.metrics.patchIdMatch
            /\ similarity.metrics.inversePatchMatch
            /\ similarity.isDuplicate
            /\ similarity.reason = "patch-id-match"
            /\ similarity.confidence = CONFIDENCE_ONE
            /\ similarity.isRevert
       /\ similarity.metrics.patchIdMatch =
            (evaluation.representations[1].patchFingerprint
               = evaluation.representations[2].patchFingerprint)
       /\ similarity.metrics.inversePatchMatch =
            (evaluation.representations[1].patchFingerprint
               = evaluation.representations[2].inversePatchFingerprint)

\* Two changes of no line in files that have nothing in common have been
\* evaluated.
C28_Witness ==
  /\ Evaluated
  /\ HasNoChangedLine(evaluation.current, evaluation.config)
  /\ HasNoChangedLine(evaluation.candidate, evaluation.config)
  /\ evaluation.current.files # <<>>
  /\ evaluation.candidate.files # <<>>
  /\ evaluation.similarity[1].metrics.fileOverlap = 0
  /\ evaluation.similarity[1].isDuplicate
  /\ evaluation.similarity[1].isRevert

(***************************************************************************)
(* A task of mapWithConcurrency fails: the request for the files of a      *)
(* candidate is rejected.  The worker of the task rejects, Promise.all and *)
(* with it the run reject with that error, and the other workers, which    *)
(* nothing stops, go on.                                                   *)
(***************************************************************************)

FailureConfigInputs == { ConfigInputs[1], ConfigInputs[2] }

\* The request for the files of the candidate of worker w is rejected: the
\* task throws and the worker rejects.  The first rejection is the error of
\* the call.
TaskFails(r, w) ==
  /\ runs[r].phase \in {"evaluating", "failed"}
  /\ w \in DOMAIN runs[r].workers
  /\ runs[r].workers[w].pc = "fetching"
  /\ runs' = [ runs EXCEPT
                 ![r].phase = "failed",
                 ![r].workers[w].pc = "rejected",
                 ![r].result = IF runs[r].phase = "evaluating"
                                 THEN << [ error |-> runs[r].workers[w].index ] >>
                                 ELSE @ ]
  /\ cacheEvent' = NoCacheEvent
  /\ UNCHANGED << representationCache, clock, lastUse, evaluation, triage, collection,
                  application, remoteRevision >>

\* The task of worker w returns after the call has failed: the worker stores
\* the value and takes the next index, as before.
LateTaskReturn(r, w) ==
  /\ runs[r].phase = "failed"
  /\ w \in DOMAIN runs[r].workers
  /\ runs[r].workers[w].pc = "resolved"
  /\ CollectInto(r, TakeNext(StoredRun(runs[r], runs[r].workers[w]), representationCache, w))
  /\ cacheEvent' = NoCacheEvent
  /\ UNCHANGED << clock, lastUse, evaluation, triage, collection, application, remoteRevision >>

\* The files of the candidate of worker w arrive after the call has failed:
\* the task builds, puts and evaluates, as before.
LateFetchReturn(r, w) ==
  /\ runs[r].phase = "failed"
  /\ w \in DOMAIN runs[r].workers
  /\ runs[r].workers[w].pc = "fetching"
  /\ FetchOf(r, w, runs[r], runs[r].candidatePool[runs[r].workers[w].index + 1],
             representationCache)
  /\ UNCHANGED << clock, lastUse, evaluation, triage, collection, application, remoteRevision >>

NextFailure ==
  \/ \E r \in RunIds, inputConfig \in FailureConfigInputs : StartRun(r, 1, inputConfig)
  \/ \E r \in RunIds : CollectReturn(r)
  \/ \E r \in RunIds, w \in 1..12 : TaskReturn(r, w)
  \/ \E r \in RunIds, w \in 1..12 : FetchReturn(r, w)
  \/ \E r \in RunIds : Finish(r)
  \/ \E r \in RunIds, w \in 1..12 : TaskFails(r, w)
  \/ \E r \in RunIds, w \in 1..12 : LateTaskReturn(r, w)
  \/ \E r \in RunIds, w \in 1..12 : LateFetchReturn(r, w)

SpecFailure == Init /\ [][NextFailure]_vars

\* The runs one of whose tasks has failed.
Failed == { r \in RunIds : runs[r].phase = "failed" }

\* In every state, failed runs included: a worker has left only on an index
\* beyond the last item; the indices taken are 0, 1, 2, ... once each; the
\* error of a failed run is the index of a task that failed; and the cache is
\* within its bound, with no key twice.
NoCancellation ==
  /\ Len(representationCache) <= REPRESENTATION_CACHE_MAX_ENTRIES
  /\ \A i, j \in DOMAIN representationCache :
       representationCache[i].key = representationCache[j].key => i = j
  /\ \A r \in RunIds :
       LET run == runs[r]
       IN run.phase \in {"evaluating", "failed"} =>
            /\ \A t \in DOMAIN run.taken : run.taken[t] = t - 1
            /\ Len(run.taken) <= Len(run.candidatePool)
            /\ \A w \in DOMAIN run.workers :
                 /\ run.workers[w].pc = "exited" =>
                      run.workers[w].index >= Len(run.candidatePool)
                 /\ run.workers[w].pc \in {"fetching", "resolved", "rejected"} =>
                      /\ run.workers[w].index < Len(run.taken)
                      /\ \A v \in DOMAIN run.workers :
                           (v # w /\ run.workers[v].pc \in {"fetching", "resolved", "rejected"})
                             => run.workers[v].index # run.workers[w].index
            /\ r \in Failed =>
                 \E w \in DOMAIN run.workers :
                   /\ run.workers[w].pc = "rejected"
                   /\ run.workers[w].index = run.result[1].error

\* A failed run stays failed, with the error of the first task that failed.
FirstErrorStays ==
  \A r \in Failed : runs'[r].phase = "failed" /\ runs'[r].result = runs[r].result

\* C29: mapWithConcurrency cancels nothing.  When a task fails the call
\* fails with that first error, and the other workers go on taking and
\* evaluating the candidates that are left until the list is exhausted, so
\* that files are fetched and representations put in the cache for a run that
\* has reported its failure; also then no candidate is started twice and the
\* cache stays within its bound.
C29_NoCancellation == []NoCancellation /\ [][FirstErrorStays]_vars

\* A run that has failed, alone in the process, has just put the
\* representation of its last candidate in the cache: every candidate was
\* started although the task of an earlier one had failed.
C29_Witness ==
  \E r \in Failed :
    /\ \A other \in RunIds : other # r => runs[other].phase = "idle"
    /\ cacheEvent.op = "put"
    /\ Len(runs[r].taken) = Len(runs[r].candidatePool)
    /\ \E w \in DOMAIN runs[r].workers :
         /\ runs[r].workers[w].pc = "resolved"
         /\ runs[r].workers[w].index = Len(runs[r].candidatePool) - 1
         /\ runs[r].workers[w].index > runs[r].result[1].error
         /\ cacheEvent.key =
              getRepresentationCacheKey(OWNER, REPO,
                                        runs[r].candidatePool[runs[r].workers[w].index + 1],
                                        runs[r].config)


\* ---------------------------------------------------------------------
\* Overlapping triage runs of one pull request.  The pull_request handler
\* of createGithubApp awaits runTriageForPullRequest for every event and
\* holds no lock per pull request, so the runs of two events interleave
\* at their awaits.  upsertManagedComment and deleteManagedComment each
\* suspend twice: at issues.listComments, and at the request that writes.

Handlers == {1, 2}

\* The webhook events handled in one behaviour.
MaxEvents == 3

IdleHandler == [ pc |-> "idle", flagged |-> FALSE, existing |-> 0 ]

\* The comments of the pull request before the events: with no marker
\* comment, or with the one an earlier run posted.
CommentsBefore ==
  { << [ id |-> 1, markers |-> {} ] >>,
    << [ id |-> 1, markers |-> {} ], [ id |-> 2, markers |-> {DUPLICATE_COMMENT_MARKER} ] >> }

InitWebhooks ==
  /\ representationCache = <<>>
  /\ cacheEvent = NoCacheEvent
  /\ clock = 0
  /\ lastUse = <<>>
  /\ remoteRevision = NoPush
  /\ runs = [ r \in RunIds |-> IdleRun ]
  /\ evaluation = NoEvaluation
  /\ collection = NoCollection
  /\ application = NoApplication
  /\ \E comments \in CommentsBefore :
       triage = [ pc |-> "webhooks",
                  events |-> 0,
                  comments |-> comments,
                  nextId |-> 3,
                  handlers |-> [ h \in Handlers |-> IdleHandler ] ]

\* The place of the comment with an id, or 0.
PlaceOfId(comments, id) ==
  LeastOrZero({ i \in DOMAIN comments : comments[i].id = id })

\* The id of the comment findExistingManagedComment returns, or 0.
ExistingId(comments, marker) ==
  IF findExistingManagedComment(comments, marker) = 0 THEN 0
  ELSE comments[findExistingManagedComment(comments, marker)].id

\* Where a handler goes once issues.listComments answered: a flagged
\* result updates the comment found or creates one, an unflagged result
\* deletes the comment found.
AfterComments(flagged, existing) ==
  IF flagged THEN (IF existing # 0 THEN "updating" ELSE "creating")
  ELSE (IF existing # 0 THEN "deleting" ELSE "done")

\* An event arrives and its handler runs until the duplicate check has a
\* result and asks the remote for the comments.
WebhookReceived(h, flagged) ==
  /\ triage.pc = "webhooks"
  /\ triage.handlers[h].pc \in {"idle", "done", "failed"}
  /\ triage.events < MaxEvents
  /\ triage' = [ triage EXCEPT !.events = @ + 1,
                               !.handlers[h] = [ pc |-> "listing",
                                                 flagged |-> flagged,
                                                 existing |-> 0 ] ]
  /\ UNCHANGED << representationCache, cacheEvent, clock, lastUse, runs, evaluation,
               collection, application, remoteRevision >>

\* issues.listComments answers with the comments of that moment.
CommentsListed(h) ==
  /\ triage.pc = "webhooks"
  /\ triage.handlers[h].pc = "listing"
  /\ triage' = [ triage EXCEPT
                   !.handlers[h].existing = ExistingId(triage.comments, DUPLICATE_COMMENT_MARKER),
                   !.handlers[h].pc =
                     AfterComments(triage.handlers[h].flagged,
                                  ExistingId(triage.comments, DUPLICATE_COMMENT_MARKER)) ]
  /\ UNCHANGED << representationCache, cacheEvent, clock, lastUse, runs, evaluation,
               collection, application, remoteRevision >>

\* issues.createComment answers.
CommentCreated(h) ==
  /\ triage.pc = "webhooks"
  /\ triage.handlers[h].pc = "creating"
  /\ triage' = [ triage EXCEPT
                   !.comments = UpsertedAt(@, 0, DUPLICATE_COMMENT_MARKER, triage.nextId),
                   !.nextId = @ + 1,
                   !.handlers[h].pc = "done" ]
  /\ UNCHANGED << representationCache, cacheEvent, clock, lastUse, runs, evaluation,
               collection, application, remoteRevision >>

\* issues.updateComment or issues.deleteComment answers: the request
\* fails when the comment is gone.
CommentWritten(h) ==
  /\ triage.pc = "webhooks"
  /\ triage.handlers[h].pc \in {"updating", "deleting"}
  /\ IF PlaceOfId(triage.comments, triage.handlers[h].existing) = 0
       THEN triage' = [ triage EXCEPT !.handlers[h].pc = "failed" ]
       ELSE triage' = [ triage EXCEPT
              !.comments =
                IF triage.handlers[h].pc = "updating"
                  THEN UpsertedAt(@, PlaceOfId(@, triage.handlers[h].existing),
                                  DUPLICATE_COMMENT_MARKER, triage.nextId)
                  ELSE DeletedAt(@, PlaceOfId(@, triage.handlers[h].existing)),
              !.handlers[h].pc = "done" ]
  /\ UNCHANGED << representationCache, cacheEvent, clock, lastUse, runs, evaluation,
               collection, application, remoteRevision >>

NextWebhooks ==
  \/ \E h \in Handlers, flagged \in BOOLEAN : WebhookReceived(h, flagged)
  \/ \E h \in Handlers : CommentsListed(h)
  \/ \E h \in Handlers : CommentCreated(h)
  \/ \E h \in Handlers : CommentWritten(h)

SpecWebhooks == InitWebhooks /\ [][NextWebhooks]_vars

\* Two events are handled, both runs flagged a duplicate, and both upserts
\* are over.
BothFlaggedAndOver ==
  /\ triage.events = 2
  /\ \A h \in Handlers : triage.handlers[h].pc = "done" /\ triage.handlers[h].flagged

\* C30: when two triage runs of one pull request overlap and both flag a
\* duplicate, the pull request ends with at most one comment that holds
\* the duplicate marker.
C30_OverlappingRunsLeaveOneMarkerComment ==
  BothFlaggedAndOver => Cardinality(MarkerComments(triage.comments)) <= 1

====
